---- MODULE Spec2Model ----
(***************************************************************************)
(* Model of the API Gateway routing core: the access helpers of            *)
(* routing_config.rs and the CRUD resolvers of crud_specs.rs.              *)
(***************************************************************************)
EXTENDS Integers, Sequences, FiniteSets, TLC

VARIABLES
    route,          \* the registered CRUD route: kind, access policy
    pc,             \* position of the resolve future: idle / handler / done
    request,        \* the ApiGatewayProxyRequest being resolved
    metadata,       \* RequestMetadata parsed from the request
    log,            \* the steps resolve has executed, in program order
    op,             \* the CrudOperation built for the handler
    response,       \* the call made into the response builder
    handler_calls,  \* number of times the handler closure was called
    args,           \* arguments of a direct call of the access helpers
    ret             \* what the access helpers returned for args

vars == <<route, pc, request, metadata, log, op, response, handler_calls,
          args, ret>>

crudVars == <<route, pc, request, metadata, log, op, response, handler_calls>>

\* Option::None
NONE == "<none>"

\* Longest list of well-formed ids in an `ids` query parameter.
MaxIds == 2

----------------------------------------------------------------------------
\* Access levels and identities.

AccessLevels == {"Guest", "AnyUser", "Admin", "None"}

OwnedAccessLevels == {"Guest", "AnyUser", "Owner", "Admin", "OwnerOrAdmin", "None"}

Subjects == {"u1", "u2"}

Owners == Subjects \cup {NONE}

Metadatas ==
    [is_authenticated : BOOLEAN, is_admin : BOOLEAN, user_sub : {NONE, "u1"}]

NoMetadata == [is_authenticated |-> FALSE, is_admin |-> FALSE, user_sub |-> "?"]

\* Variant: the None arm falls into the permissive default.
is_allowed_access_default_permit(m, access) ==
    CASE access = "AnyUser" -> m.is_authenticated
      [] access = "Admin" -> m.is_authenticated /\ m.is_admin
      [] OTHER -> TRUE

is_allowed_access(m, access) ==
    CASE access = "Guest" -> TRUE
      [] access = "AnyUser" -> m.is_authenticated
      [] access = "Admin" -> m.is_authenticated /\ m.is_admin
      [] access = "None" -> FALSE

\* Variant: OwnerOrAdmin trusts is_admin without is_authenticated.
is_allowed_owned_access_admin_flag(m, access, owner) ==
    CASE access = "Guest" -> TRUE
      [] access = "AnyUser" -> m.is_authenticated
      [] access = "Admin" -> m.is_authenticated /\ m.is_admin
      [] access = "Owner" ->
            IF owner # NONE /\ m.user_sub # NONE THEN owner = m.user_sub ELSE FALSE
      [] access = "OwnerOrAdmin" ->
            IF m.is_admin
            THEN TRUE
            ELSE IF owner # NONE /\ m.user_sub # NONE
                 THEN owner = m.user_sub
                 ELSE FALSE
      [] access = "None" -> FALSE

\* Variant: the Owner arm compares the two options as they are, so a missing
\* owner matches a missing subject.
is_allowed_owned_access_option_eq(m, access, owner) ==
    CASE access = "Guest" -> TRUE
      [] access = "AnyUser" -> m.is_authenticated
      [] access = "Admin" -> m.is_authenticated /\ m.is_admin
      [] access = "Owner" -> owner = m.user_sub
      [] access = "OwnerOrAdmin" ->
            IF m.is_authenticated /\ m.is_admin
            THEN TRUE
            ELSE owner = m.user_sub
      [] access = "None" -> FALSE

is_allowed_owned_access(m, access, owner) ==
    CASE access = "Guest" -> TRUE
      [] access = "AnyUser" -> m.is_authenticated
      [] access = "Admin" -> m.is_authenticated /\ m.is_admin
      [] access = "Owner" ->
            IF owner # NONE /\ m.user_sub # NONE THEN owner = m.user_sub ELSE FALSE
      [] access = "OwnerOrAdmin" ->
            IF m.is_authenticated /\ m.is_admin
            THEN TRUE
            ELSE IF owner # NONE /\ m.user_sub # NONE
                 THEN owner = m.user_sub
                 ELSE FALSE
      [] access = "None" -> FALSE

preliminary_access_check(m, access) ==
    CASE access = "Guest" -> TRUE
      [] access = "AnyUser" -> m.is_authenticated
      [] access = "Admin" -> m.is_authenticated /\ m.is_admin
      [] access = "Owner" -> m.is_authenticated
      [] access = "OwnerOrAdmin" ->
            IF m.is_authenticated /\ m.is_admin THEN TRUE ELSE m.is_authenticated
      [] access = "None" -> FALSE

----------------------------------------------------------------------------
\* Requests.

\* Every string PkSk::from_string accepts in this model.
PkSkStrings == {"i1", "i2", "p1", "a1"}

Ids == {"i1", "i2"}

\* A presence-only query parameter: absent, or present with an empty value
\* (`?all`).
Flags == {NONE, ""}

\* The body: a JSON array of data items, a JSON object (with or without the
\* item's own id), or text that is not the expected JSON.
Bodies ==
    {[shape |-> "list", id |-> NONE], [shape |-> "malformed", id |-> NONE]}
    \cup [shape : {"object"}, id : Ids \cup {NONE}]

NoBody == [shape |-> "malformed", id |-> NONE]

\* The raw `ids` parameter as its comma-separated segments.
WellFormedIdLists == UNION {[1..n -> Ids] : n \in 1..MaxIds}

OtherIdLists == {<<"">>, <<" ">>, <<"bad">>, <<"i1", "">>, <<" i1", "i2">>}

NoIds == [some |-> FALSE, segs |-> <<>>]

IdsParams ==
    {NoIds} \cup [some : {TRUE}, segs : WellFormedIdLists \cup OtherIdLists]

\* What parse_request_metadata finds in the request: an identity, or nothing
\* it can parse.
Auths ==
    [valid : {TRUE}, is_authenticated : BOOLEAN, is_admin : BOOLEAN,
     user_sub : {NONE, "u1"}]
    \cup {[valid |-> FALSE, is_authenticated |-> FALSE, is_admin |-> FALSE,
           user_sub |-> NONE]}

Req(method, auth, replace_all, all, non_recursive, id, ids, parent_id, after, body) ==
    [method |-> method, auth |-> auth, replace_all |-> replace_all, all |-> all,
     non_recursive |-> non_recursive, id |-> id, ids |-> ids,
     parent_id |-> parent_id, after |-> after, body |-> body]

NoRequest ==
    Req(NONE, CHOOSE a \in Auths : ~a.valid, NONE, NONE, NONE, NONE, NoIds,
        NONE, NONE, NoBody)

\* The requests of the model. A parameter the method's arm never reads is
\* left absent.
PostRequests ==
    {Req("POST", a, r, NONE, NONE, NONE, NoIds, p, f, b) :
        a \in Auths, r \in Flags, p \in {NONE, "bad", "p1"},
        f \in {NONE, "bad", "a1"}, b \in Bodies}

GetRequests ==
    {Req("GET", a, NONE, l, NONE, i, is, p, NONE, NoBody) :
        a \in Auths, l \in Flags, i \in {NONE, "bad", "i1", "i2"},
        is \in IdsParams, p \in {NONE, "bad", "p1"}}

PutRequests ==
    {Req("PUT", a, NONE, NONE, NONE, NONE, NoIds, NONE, NONE, b) :
        a \in Auths, b \in Bodies}

DeleteRequests ==
    {Req("DELETE", a, NONE, l, n, i, is, p, NONE, NoBody) :
        a \in Auths, l \in Flags, n \in Flags, i \in {NONE, "bad", "i1", "i2"},
        is \in IdsParams, p \in {NONE, "bad", "p1"}}

OtherRequests ==
    {Req("PATCH", a, NONE, NONE, NONE, NONE, NoIds, NONE, NONE, NoBody) :
        a \in Auths}

Requests ==
    PostRequests \cup GetRequests \cup PutRequests \cup DeleteRequests
    \cup OtherRequests

----------------------------------------------------------------------------
\* Errors and parsing helpers.

Err(type, msg) == [type |-> type, msg |-> msg]

NoErr == Err(NONE, "")

UnauthorizedError == Err("UnauthorizedError", "")

InvalidRequestError(msg) == Err("InvalidRequestError", msg)

CriticalError(msg) == Err("CriticalError", msg)

Ok(v) == [ok |-> TRUE, val |-> v, err |-> NoErr]

Failed(e) == [ok |-> FALSE, val |-> NONE, err |-> e]

parse_request_metadata(req) ==
    IF req.auth.valid
    THEN [ok |-> TRUE,
          val |-> [is_authenticated |-> req.auth.is_authenticated,
                   is_admin |-> req.auth.is_admin,
                   user_sub |-> req.auth.user_sub],
          err |-> NoErr]
    ELSE [ok |-> FALSE, val |-> NoMetadata,
          err |-> Err("MetadataError", "")]

\* parse_request_data::<T>: ty is "Vec<Data>", "Data" or "T".
parse_request_data(req, ty) ==
    CASE ty = "Vec<Data>" ->
            IF req.body.shape = "list" THEN Ok(req.body)
            ELSE Failed(InvalidRequestError("body"))
      [] ty = "Data" ->
            IF req.body.shape = "object" THEN Ok(req.body)
            ELSE Failed(InvalidRequestError("body"))
      [] ty = "T" ->
            IF req.body.shape = "object" /\ req.body.id # NONE THEN Ok(req.body)
            ELSE Failed(InvalidRequestError("body"))

PkSk_from_string(s) ==
    IF s \in PkSkStrings THEN Ok(s) ELSE Failed(Err("PkSkError", s))

PkSk_root == "root"

\* str::trim
trim(s) ==
    CASE s = " " -> ""
      [] s = " i1" -> "i1"
      [] OTHER -> s

has_flag(req, key) == req[key] # NONE

get_required_id(req) ==
    IF req.id = NONE
    THEN Failed(InvalidRequestError("query parameter 'id' is required"))
    ELSE IF PkSk_from_string(req.id).ok
         THEN Ok(PkSk_from_string(req.id).val)
         ELSE Failed(InvalidRequestError("invalid id"))

get_optional_pksk(req, key) ==
    IF req[key] # NONE
    THEN IF PkSk_from_string(req[key]).ok
         THEN Ok(PkSk_from_string(req[key]).val)
         ELSE Failed(InvalidRequestError("invalid " \o key))
    ELSE Ok(NONE)

\* The loop of maybe_ids over the segments from position i, ids collected
\* so far in acc.
RECURSIVE ids_loop(_, _, _)
ids_loop(segs, i, acc) ==
    IF i > Len(segs)
    THEN [ok |-> TRUE, val |-> acc, err |-> NoErr]
    ELSE IF trim(segs[i]) = ""
         THEN [ok |-> FALSE, val |-> <<>>,
               err |-> InvalidRequestError("query parameter 'ids' contains empty id")]
         ELSE IF PkSk_from_string(trim(segs[i])).ok
              THEN ids_loop(segs, i + 1,
                            Append(acc, PkSk_from_string(trim(segs[i])).val))
              ELSE [ok |-> FALSE, val |-> <<>>,
                    err |-> InvalidRequestError("invalid id in 'ids'")]

\* maybe_ids: some = FALSE is Option::None.
maybe_ids(req) ==
    IF ~req.ids.some
    THEN [some |-> FALSE, ok |-> FALSE, val |-> <<>>, err |-> NoErr]
    ELSE IF Len(req.ids.segs) = 1 /\ trim(req.ids.segs[1]) = ""
         THEN [some |-> TRUE, ok |-> FALSE, val |-> <<>>,
               err |-> InvalidRequestError("query parameter 'ids' must not be empty")]
         ELSE [some |-> TRUE] @@ ids_loop(req.ids.segs, 1, <<>>)

----------------------------------------------------------------------------
\* Routes.

CrudFields ==
    {"create", "read", "update", "delete", "list", "batch_create",
     "batch_read", "batch_delete", "delete_all", "replace_all"}

\* A policy: level l on field f, level rest on every other field.
Policy(f, l, rest, allow) ==
    [g \in CrudFields \cup {"allow_non_recursive_delete"} |->
        IF g = "allow_non_recursive_delete" THEN allow
        ELSE IF g = f THEN l ELSE rest]

\* The policies of the model: one level on every field (None is the default
\* policy), and one field opened while the others keep the default.
PoliciesOver(levels) ==
    {Policy("create", l, l, allow) : l \in levels, allow \in BOOLEAN}
    \cup {Policy(f, "Guest", "None", TRUE) : f \in CrudFields}

CrudAccesses == PoliciesOver(AccessLevels)

OwnedCrudAccesses == PoliciesOver(OwnedAccessLevels)

Routes ==
    [kind : {"Crud"}, access : CrudAccesses]
    \cup [kind : {"OwnedCrud"}, access : OwnedCrudAccesses]

\* The owner lookups registered with the owned route.
owner_of_id(id) ==
    CASE id = "i1" -> "u1"
      [] id = "i2" -> "u2"
      [] OTHER -> NONE

owner_of_parent_id(pid) ==
    CASE pid = "p1" -> "u1"
      [] OTHER -> NONE

----------------------------------------------------------------------------
\* Validation.

\* A validator: AdminOnly, with the value its predicate takes on the
\* operation, or an opaque ValidatorSpec with the verdict it gives.
Validators ==
    [name : {"A", "B"}, verdict : {"ok", "err"}]
    \cup [name : {"AdminOnly"}, verdict : {"if_true", "if_false"}]

validator_validate(v, m) ==
    IF v.name = "AdminOnly"
    THEN IF v.verdict = "if_true"
         THEN IF m.is_authenticated /\ m.is_admin
              THEN Ok(NONE)
              ELSE Failed(UnauthorizedError)
         ELSE Ok(NONE)
    ELSE IF v.verdict = "ok" THEN Ok(NONE)
         ELSE Failed(Err("ValidationError", v.name))

\* Variant: every child is evaluated and the error of the last failing one
\* is returned.
RECURSIVE require_all_last_error(_, _, _)
require_all_last_error(vs, i, m) ==
    IF i > Len(vs) THEN Ok(NONE)
    ELSE IF ~validator_validate(vs[i], m).ok /\ require_all_last_error(vs, i + 1, m).ok
         THEN validator_validate(vs[i], m)
         ELSE require_all_last_error(vs, i + 1, m)

RECURSIVE require_all(_, _, _)
require_all(vs, i, m) ==
    IF i > Len(vs) THEN Ok(NONE)
    ELSE IF ~validator_validate(vs[i], m).ok
         THEN validator_validate(vs[i], m)
         ELSE require_all(vs, i + 1, m)

\* Variant: each failure overwrites the one before, so only the last child's
\* error is reported.
RECURSIVE require_any_last_error(_, _, _, _)
require_any_last_error(vs, i, m, errors) ==
    IF i > Len(vs)
    THEN Failed([type |-> "RequireAnyWasFalse", msg |-> "", errors |-> errors])
    ELSE IF validator_validate(vs[i], m).ok
         THEN Ok(NONE)
         ELSE require_any_last_error(vs, i + 1, m, <<validator_validate(vs[i], m).err>>)

RECURSIVE require_any(_, _, _, _)
require_any(vs, i, m, errors) ==
    IF i > Len(vs)
    THEN Failed([type |-> "RequireAnyWasFalse", msg |-> "", errors |-> errors])
    ELSE IF validator_validate(vs[i], m).ok
         THEN Ok(NONE)
         ELSE require_any(vs, i + 1, m, Append(errors, validator_validate(vs[i], m).err))

Validation_validate(validation, m) ==
    CASE validation.kind = "None" -> Ok(NONE)
      [] validation.kind = "Require" -> validator_validate(validation.vs[1], m)
      [] validation.kind = "RequireAll" -> require_all(validation.vs, 1, m)
      [] validation.kind = "RequireAny" -> require_any(validation.vs, 1, m, <<>>)

\* The validation chains a route is registered with in this model.
Validations ==
    {[kind |-> "None", vs |-> <<>>]}
    \cup {[kind |-> "Require", vs |-> <<v>>] :
            v \in {[name |-> "A", verdict |-> "err"],
                   [name |-> "AdminOnly", verdict |-> "if_true"]}}
    \cup {[kind |-> "RequireAll",
           vs |-> <<[name |-> "A", verdict |-> "ok"], [name |-> "B", verdict |-> "err"]>>],
          [kind |-> "RequireAny",
           vs |-> <<[name |-> "A", verdict |-> "err"], [name |-> "B", verdict |-> "ok"]>>]}

----------------------------------------------------------------------------
\* The steps of resolve, as they are logged.

Ev(e, a, r) == [e |-> e, a |-> a, r |-> r]

Tf(b) == IF b THEN "true" ELSE "false"

Oe(res) == IF res.ok THEN "ok" ELSE "err"

NoOp == [kind |-> NONE]

\* resolve returned early with build_err(e)
Stop(l, e) == [log |-> l, err |-> e, op |-> NoOp]

\* the match arm produced an operation
Built(l, o) == [log |-> l, err |-> NoErr, op |-> o]

EvFlag(req, key) == Ev("has_flag", key, Tf(has_flag(req, key)))

EvAccess(m, access, field) ==
    Ev("is_allowed_access", field, Tf(is_allowed_access(m, access[field])))

EvPrelim(m, access, field) ==
    Ev("preliminary_access_check", field, Tf(preliminary_access_check(m, access[field])))

EvFinal(m, access, field, owner) ==
    Ev("is_allowed_owned_access", field,
       Tf(is_allowed_owned_access(m, access[field], owner)))

EvPkSk(req, key) == Ev("get_optional_pksk", key, Oe(get_optional_pksk(req, key)))

EvData(req, ty) == Ev("parse_request_data", ty, Oe(parse_request_data(req, ty)))

EvIds(req) == Ev("maybe_ids", "ids", Oe(maybe_ids(req)))

EvId(req) == Ev("get_required_id", "id", Oe(get_required_id(req)))

\* The validation step, with the error the chain returned.
EvValidate(v) == [e |-> "validate", a |-> "", r |-> Oe(v), err |-> v.err]

----------------------------------------------------------------------------
\* Crud::resolve: one definition per branch, l the steps taken before it.

Crud_replace_all(m, access, req, l) ==
    LET l1 == Append(l, EvAccess(m, access, "replace_all")) IN
    IF ~is_allowed_access(m, access.replace_all)
    THEN Stop(l1, UnauthorizedError)
    ELSE
    LET parent_id == get_optional_pksk(req, "parent_id")
        l2 == Append(l1, EvPkSk(req, "parent_id")) IN
    IF ~parent_id.ok THEN Stop(l2, parent_id.err)
    ELSE
    LET data == parse_request_data(req, "Vec<Data>")
        l3 == Append(l2, EvData(req, "Vec<Data>")) IN
    IF ~data.ok THEN Stop(l3, data.err)
    ELSE Built(l3, [kind |-> "ReplaceAll", parent_id |-> parent_id.val,
                    data |-> data.val])

Crud_create_multiple(m, access, l, parent_id, after, list) ==
    LET l1 == Append(l, EvAccess(m, access, "batch_create")) IN
    IF ~is_allowed_access(m, access.batch_create)
    THEN Stop(l1, UnauthorizedError)
    ELSE Built(l1, [kind |-> "CreateMultiple", parent_id |-> parent_id,
                    after |-> after, data |-> list])

Crud_create_single(m, access, req, l, parent_id, after) ==
    LET l1 == Append(l, EvAccess(m, access, "create")) IN
    IF ~is_allowed_access(m, access.create)
    THEN Stop(l1, UnauthorizedError)
    ELSE
    LET data == parse_request_data(req, "Data")
        l2 == Append(l1, EvData(req, "Data")) IN
    IF ~data.ok THEN Stop(l2, data.err)
    ELSE Built(l2, [kind |-> "Create", parent_id |-> parent_id,
                    after |-> after, data |-> data.val])

\* Variant: a list body refused under batch_create is retried as a single
\* create.
Crud_create_retry_single(m, access, req, l) ==
    LET parent_id == get_optional_pksk(req, "parent_id")
        l1 == Append(l, EvPkSk(req, "parent_id")) IN
    IF ~parent_id.ok THEN Stop(l1, parent_id.err)
    ELSE
    LET after == get_optional_pksk(req, "after")
        l2 == Append(l1, EvPkSk(req, "after")) IN
    IF ~after.ok THEN Stop(l2, after.err)
    ELSE
    LET list == parse_request_data(req, "Vec<Data>")
        l3 == Append(l2, EvData(req, "Vec<Data>")) IN
    IF list.ok /\ is_allowed_access(m, access.batch_create)
    THEN Crud_create_multiple(m, access, l3, parent_id.val, after.val, list.val)
    ELSE Crud_create_single(m, access, req, l3, parent_id.val, after.val)

\* Batch create if the body is a list; fall back to single.
Crud_create(m, access, req, l) ==
    LET parent_id == get_optional_pksk(req, "parent_id")
        l1 == Append(l, EvPkSk(req, "parent_id")) IN
    IF ~parent_id.ok THEN Stop(l1, parent_id.err)
    ELSE
    LET after == get_optional_pksk(req, "after")
        l2 == Append(l1, EvPkSk(req, "after")) IN
    IF ~after.ok THEN Stop(l2, after.err)
    ELSE
    LET list == parse_request_data(req, "Vec<Data>")
        l3 == Append(l2, EvData(req, "Vec<Data>")) IN
    IF list.ok
    THEN Crud_create_multiple(m, access, l3, parent_id.val, after.val, list.val)
    ELSE Crud_create_single(m, access, req, l3, parent_id.val, after.val)

\* Variant: replace_all with a body that is not a list falls back to create.
Crud_post_fallback(m, access, req) ==
    IF has_flag(req, "replace_all") /\ parse_request_data(req, "Vec<Data>").ok
    THEN Crud_replace_all(m, access, req, <<EvFlag(req, "replace_all")>>)
    ELSE Crud_create(m, access, req, <<EvFlag(req, "replace_all")>>)

Crud_post(m, access, req) ==
    IF has_flag(req, "replace_all")
    THEN Crud_replace_all(m, access, req, <<EvFlag(req, "replace_all")>>)
    ELSE Crud_create(m, access, req, <<EvFlag(req, "replace_all")>>)

Crud_list(m, access, req, l) ==
    LET l1 == Append(l, EvAccess(m, access, "list")) IN
    IF ~is_allowed_access(m, access.list)
    THEN Stop(l1, UnauthorizedError)
    ELSE
    LET parent_id == get_optional_pksk(req, "parent_id")
        l2 == Append(l1, EvPkSk(req, "parent_id")) IN
    IF ~parent_id.ok THEN Stop(l2, parent_id.err)
    ELSE Built(l2, [kind |-> "List", parent_id |-> parent_id.val])

\* res is Some(res) of maybe_ids
Crud_read_multiple(m, access, l, res) ==
    LET l1 == Append(l, EvAccess(m, access, "batch_read")) IN
    IF ~is_allowed_access(m, access.batch_read)
    THEN Stop(l1, UnauthorizedError)
    ELSE IF ~res.ok THEN Stop(l1, res.err)
    ELSE Built(l1, [kind |-> "ReadMultiple", ids |-> res.val])

\* Variant: the id is parsed before the access check.
Crud_read_parse_first(m, access, req, l) ==
    LET id == get_required_id(req)
        l1 == Append(l, EvId(req)) IN
    IF ~id.ok THEN Stop(l1, id.err)
    ELSE
    LET l2 == Append(l1, EvAccess(m, access, "read")) IN
    IF ~is_allowed_access(m, access.read)
    THEN Stop(l2, UnauthorizedError)
    ELSE Built(l2, [kind |-> "Read", id |-> id.val])

Crud_read(m, access, req, l) ==
    LET l1 == Append(l, EvAccess(m, access, "read")) IN
    IF ~is_allowed_access(m, access.read)
    THEN Stop(l1, UnauthorizedError)
    ELSE
    LET id == get_required_id(req)
        l2 == Append(l1, EvId(req)) IN
    IF ~id.ok THEN Stop(l2, id.err)
    ELSE Built(l2, [kind |-> "Read", id |-> id.val])

\* Variant: the ids parameter is looked at before the all flag.
Crud_get_ids_first(m, access, req) ==
    IF maybe_ids(req).some
    THEN Crud_read_multiple(m, access, <<EvIds(req)>>, maybe_ids(req))
    ELSE IF has_flag(req, "all")
         THEN Crud_list(m, access, req, <<EvIds(req), EvFlag(req, "all")>>)
         ELSE Crud_read(m, access, req, <<EvIds(req), EvFlag(req, "all")>>)

Crud_get(m, access, req) ==
    IF has_flag(req, "all")
    THEN Crud_list(m, access, req, <<EvFlag(req, "all")>>)
    ELSE IF maybe_ids(req).some
         THEN Crud_read_multiple(m, access, <<EvFlag(req, "all"), EvIds(req)>>,
                                 maybe_ids(req))
         ELSE Crud_read(m, access, req, <<EvFlag(req, "all"), EvIds(req)>>)

Crud_put(m, access, req) ==
    LET l0 == <<EvAccess(m, access, "update")>> IN
    IF ~is_allowed_access(m, access.update)
    THEN Stop(l0, UnauthorizedError)
    ELSE
    LET item == parse_request_data(req, "T")
        l1 == Append(l0, EvData(req, "T")) IN
    IF ~item.ok THEN Stop(l1, item.err)
    ELSE Built(l1, [kind |-> "Update", item |-> item.val])

Crud_delete_all(m, access, req, l, non_recursive) ==
    LET l1 == Append(l, EvAccess(m, access, "delete_all")) IN
    IF ~is_allowed_access(m, access.delete_all)
    THEN Stop(l1, UnauthorizedError)
    ELSE
    LET parent_id == get_optional_pksk(req, "parent_id")
        l2 == Append(l1, EvPkSk(req, "parent_id")) IN
    IF ~parent_id.ok THEN Stop(l2, parent_id.err)
    ELSE Built(l2, [kind |-> "DeleteAll", parent_id |-> parent_id.val,
                    non_recursive |-> non_recursive])

Crud_delete_multiple(m, access, l, res, non_recursive) ==
    LET l1 == Append(l, EvAccess(m, access, "batch_delete")) IN
    IF ~is_allowed_access(m, access.batch_delete)
    THEN Stop(l1, UnauthorizedError)
    ELSE IF ~res.ok THEN Stop(l1, res.err)
    ELSE Built(l1, [kind |-> "DeleteMultiple", ids |-> res.val,
                    non_recursive |-> non_recursive])

Crud_delete_single(m, access, req, l, non_recursive) ==
    LET l1 == Append(l, EvAccess(m, access, "delete")) IN
    IF ~is_allowed_access(m, access.delete)
    THEN Stop(l1, UnauthorizedError)
    ELSE
    LET id == get_required_id(req)
        l2 == Append(l1, EvId(req)) IN
    IF ~id.ok THEN Stop(l2, id.err)
    ELSE Built(l2, [kind |-> "Delete", id |-> id.val,
                    non_recursive |-> non_recursive])

\* The branches of DELETE once the non_recursive guard has passed.
Crud_delete_branches(m, access, req, l, non_recursive) ==
    IF has_flag(req, "all")
    THEN Crud_delete_all(m, access, req, Append(l, EvFlag(req, "all")), non_recursive)
    ELSE IF maybe_ids(req).some
         THEN Crud_delete_multiple(m, access,
                                   l \o <<EvFlag(req, "all"), EvIds(req)>>,
                                   maybe_ids(req), non_recursive)
         ELSE Crud_delete_single(m, access, req,
                                 l \o <<EvFlag(req, "all"), EvIds(req)>>,
                                 non_recursive)

\* Variant: an authenticated admin passes the non_recursive guard.
Crud_delete_admin_bypass(m, access, req) ==
    LET non_recursive == has_flag(req, "non_recursive")
        l0 == <<EvFlag(req, "non_recursive")>> IN
    IF non_recursive /\ ~access.allow_non_recursive_delete
       /\ ~(m.is_authenticated /\ m.is_admin)
    THEN Stop(l0, UnauthorizedError)
    ELSE Crud_delete_branches(m, access, req, l0, non_recursive)

Crud_delete(m, access, req) ==
    LET non_recursive == has_flag(req, "non_recursive")
        l0 == <<EvFlag(req, "non_recursive")>> IN
    IF non_recursive /\ ~access.allow_non_recursive_delete
    THEN Stop(l0, UnauthorizedError)
    ELSE Crud_delete_branches(m, access, req, l0, non_recursive)

\* Variant: a method without an arm is served like GET.
Crud_match_default_get(m, access, req) ==
    CASE req.method = "POST" -> Crud_post(m, access, req)
      [] req.method = "PUT" -> Crud_put(m, access, req)
      [] req.method = "DELETE" -> Crud_delete(m, access, req)
      [] OTHER -> Crud_get(m, access, req)

\* The match on the method.
Crud_match(m, access, req) ==
    CASE req.method = "POST" -> Crud_post(m, access, req)
      [] req.method = "GET" -> Crud_get(m, access, req)
      [] req.method = "PUT" -> Crud_put(m, access, req)
      [] req.method = "DELETE" -> Crud_delete(m, access, req)
      [] OTHER -> Stop(<<>>, CriticalError("unsupported HTTP method for CRUD route"))

\* Variant: the result of the validation chain is dropped.
resolve_tail_unchecked(validation, m, d) ==
    LET v == Validation_validate(validation, m)
        l1 == Append(d.log, EvValidate(v)) IN
    Built(Append(l1, Ev("handler", d.op.kind, "called")), d.op)

\* The tail of resolve: the validation chain, then the handler.
resolve_tail(validation, m, d) ==
    LET v == Validation_validate(validation, m)
        l1 == Append(d.log, EvValidate(v)) IN
    IF ~v.ok THEN Stop(l1, v.err)
    ELSE Built(Append(l1, Ev("handler", d.op.kind, "called")), d.op)

----------------------------------------------------------------------------
\* OwnedCrud::resolve: one definition per branch, l the steps taken before it.

\* match parent_id { Some(pid) => owner_of_parent_id(pid),
\*                   None => owner_of_parent_id(&PkSk::root()) }
parent_owner(parent_id) ==
    IF parent_id # NONE
    THEN owner_of_parent_id(parent_id)
    ELSE owner_of_parent_id(PkSk_root)

EvParentOwner(parent_id) ==
    Ev("owner_of_parent_id", IF parent_id # NONE THEN parent_id ELSE PkSk_root,
       parent_owner(parent_id))

\* The final check against the owner of the parent.
parent_authorized(m, access, field, l, parent_id) ==
    [ok |-> is_allowed_owned_access(m, access[field], parent_owner(parent_id)),
     log |-> l \o <<EvParentOwner(parent_id),
                    EvFinal(m, access, field, parent_owner(parent_id))>>]

\* The final check against the owner of one id.
id_authorized(m, access, field, l, id) ==
    [ok |-> is_allowed_owned_access(m, access[field], owner_of_id(id)),
     log |-> l \o <<Ev("owner_of_id", id, owner_of_id(id)),
                    EvFinal(m, access, field, owner_of_id(id))>>]

\* Variant: ids.iter().any(..) in place of all(..).
RECURSIVE any_authorized(_, _, _, _, _)
any_authorized(m, access, field, ids, i) ==
    IF i > Len(ids)
    THEN [ok |-> FALSE, log |-> <<>>]
    ELSE IF id_authorized(m, access, field, <<>>, ids[i]).ok
         THEN id_authorized(m, access, field, <<>>, ids[i])
         ELSE [ok |-> any_authorized(m, access, field, ids, i + 1).ok,
               log |-> id_authorized(m, access, field, <<>>, ids[i]).log
                       \o any_authorized(m, access, field, ids, i + 1).log]

\* ids.iter().all(|id| is_allowed_owned_access(.., owner_of_id(id))) from
\* position i: the verdict and the lookups made before it was known.
RECURSIVE all_authorized(_, _, _, _, _)
all_authorized(m, access, field, ids, i) ==
    IF i > Len(ids)
    THEN [ok |-> TRUE, log |-> <<>>]
    ELSE IF ~id_authorized(m, access, field, <<>>, ids[i]).ok
         THEN id_authorized(m, access, field, <<>>, ids[i])
         ELSE [ok |-> all_authorized(m, access, field, ids, i + 1).ok,
               log |-> id_authorized(m, access, field, <<>>, ids[i]).log
                       \o all_authorized(m, access, field, ids, i + 1).log]

OwnedCrud_replace_all(m, access, req, l) ==
    LET l1 == Append(l, EvPrelim(m, access, "replace_all")) IN
    IF ~preliminary_access_check(m, access.replace_all)
    THEN Stop(l1, UnauthorizedError)
    ELSE
    LET parent_id == get_optional_pksk(req, "parent_id")
        l2 == Append(l1, EvPkSk(req, "parent_id")) IN
    IF ~parent_id.ok THEN Stop(l2, parent_id.err)
    ELSE
    LET authorized == parent_authorized(m, access, "replace_all", l2, parent_id.val) IN
    IF ~authorized.ok THEN Stop(authorized.log, UnauthorizedError)
    ELSE
    LET data == parse_request_data(req, "Vec<Data>")
        l4 == Append(authorized.log, EvData(req, "Vec<Data>")) IN
    IF ~data.ok THEN Stop(l4, data.err)
    ELSE Built(l4, [kind |-> "ReplaceAll", parent_id |-> parent_id.val,
                    data |-> data.val])

OwnedCrud_create_multiple(m, access, l, parent_id, after, list) ==
    LET l1 == Append(l, EvPrelim(m, access, "batch_create")) IN
    IF ~preliminary_access_check(m, access.batch_create)
    THEN Stop(l1, UnauthorizedError)
    ELSE
    LET authorized == parent_authorized(m, access, "batch_create", l1, parent_id) IN
    IF ~authorized.ok THEN Stop(authorized.log, UnauthorizedError)
    ELSE Built(authorized.log,
               [kind |-> "CreateMultiple", parent_id |-> parent_id,
                after |-> after, data |-> list])

OwnedCrud_create_single(m, access, req, l, parent_id, after) ==
    LET l1 == Append(l, EvPrelim(m, access, "create")) IN
    IF ~preliminary_access_check(m, access.create)
    THEN Stop(l1, UnauthorizedError)
    ELSE
    LET authorized == parent_authorized(m, access, "create", l1, parent_id) IN
    IF ~authorized.ok THEN Stop(authorized.log, UnauthorizedError)
    ELSE
    LET data == parse_request_data(req, "Data")
        l3 == Append(authorized.log, EvData(req, "Data")) IN
    IF ~data.ok THEN Stop(l3, data.err)
    ELSE Built(l3, [kind |-> "Create", parent_id |-> parent_id,
                    after |-> after, data |-> data.val])

\* Batch create if the body is a list; fall back to single.
OwnedCrud_create(m, access, req, l) ==
    LET parent_id == get_optional_pksk(req, "parent_id")
        l1 == Append(l, EvPkSk(req, "parent_id")) IN
    IF ~parent_id.ok THEN Stop(l1, parent_id.err)
    ELSE
    LET after == get_optional_pksk(req, "after")
        l2 == Append(l1, EvPkSk(req, "after")) IN
    IF ~after.ok THEN Stop(l2, after.err)
    ELSE
    LET list == parse_request_data(req, "Vec<Data>")
        l3 == Append(l2, EvData(req, "Vec<Data>")) IN
    IF list.ok
    THEN OwnedCrud_create_multiple(m, access, l3, parent_id.val, after.val, list.val)
    ELSE OwnedCrud_create_single(m, access, req, l3, parent_id.val, after.val)

OwnedCrud_post(m, access, req) ==
    IF has_flag(req, "replace_all")
    THEN OwnedCrud_replace_all(m, access, req, <<EvFlag(req, "replace_all")>>)
    ELSE OwnedCrud_create(m, access, req, <<EvFlag(req, "replace_all")>>)

OwnedCrud_list(m, access, req, l) ==
    LET l1 == Append(l, EvPrelim(m, access, "list")) IN
    IF ~preliminary_access_check(m, access.list)
    THEN Stop(l1, UnauthorizedError)
    ELSE
    LET parent_id == get_optional_pksk(req, "parent_id")
        l2 == Append(l1, EvPkSk(req, "parent_id")) IN
    IF ~parent_id.ok THEN Stop(l2, parent_id.err)
    ELSE
    LET authorized == parent_authorized(m, access, "list", l2, parent_id.val) IN
    IF ~authorized.ok THEN Stop(authorized.log, UnauthorizedError)
    ELSE Built(authorized.log, [kind |-> "List", parent_id |-> parent_id.val])

\* res is Some(res) of maybe_ids
OwnedCrud_read_multiple(m, access, l, res) ==
    LET l1 == Append(l, EvPrelim(m, access, "batch_read")) IN
    IF ~preliminary_access_check(m, access.batch_read)
    THEN Stop(l1, UnauthorizedError)
    ELSE IF ~res.ok THEN Stop(l1, res.err)
    ELSE
    LET all_auth == all_authorized(m, access, "batch_read", res.val, 1) IN
    IF ~all_auth.ok THEN Stop(l1 \o all_auth.log, UnauthorizedError)
    ELSE Built(l1 \o all_auth.log, [kind |-> "ReadMultiple", ids |-> res.val])

\* Variant: the owner of the id is fetched before the preliminary check.
OwnedCrud_read_lookup_first(m, access, req, l) ==
    LET id == get_required_id(req)
        l1 == Append(l, EvId(req)) IN
    IF ~id.ok THEN Stop(l1, id.err)
    ELSE
    LET authorized == id_authorized(m, access, "read", l1, id.val)
        l2 == Append(authorized.log, EvPrelim(m, access, "read")) IN
    IF ~preliminary_access_check(m, access.read) \/ ~authorized.ok
    THEN Stop(l2, UnauthorizedError)
    ELSE Built(l2, [kind |-> "Read", id |-> id.val])

OwnedCrud_read(m, access, req, l) ==
    LET l1 == Append(l, EvPrelim(m, access, "read")) IN
    IF ~preliminary_access_check(m, access.read)
    THEN Stop(l1, UnauthorizedError)
    ELSE
    LET id == get_required_id(req)
        l2 == Append(l1, EvId(req)) IN
    IF ~id.ok THEN Stop(l2, id.err)
    ELSE
    LET authorized == id_authorized(m, access, "read", l2, id.val) IN
    IF ~authorized.ok THEN Stop(authorized.log, UnauthorizedError)
    ELSE Built(authorized.log, [kind |-> "Read", id |-> id.val])

OwnedCrud_get(m, access, req) ==
    IF has_flag(req, "all")
    THEN OwnedCrud_list(m, access, req, <<EvFlag(req, "all")>>)
    ELSE IF maybe_ids(req).some
         THEN OwnedCrud_read_multiple(m, access, <<EvFlag(req, "all"), EvIds(req)>>,
                                      maybe_ids(req))
         ELSE OwnedCrud_read(m, access, req, <<EvFlag(req, "all"), EvIds(req)>>)

OwnedCrud_put(m, access, req) ==
    LET l0 == <<EvPrelim(m, access, "update")>> IN
    IF ~preliminary_access_check(m, access.update)
    THEN Stop(l0, UnauthorizedError)
    ELSE
    LET item == parse_request_data(req, "T")
        l1 == Append(l0, EvData(req, "T")) IN
    IF ~item.ok THEN Stop(l1, item.err)
    ELSE
    LET authorized == id_authorized(m, access, "update", l1, item.val.id) IN
    IF ~authorized.ok THEN Stop(authorized.log, UnauthorizedError)
    ELSE Built(authorized.log, [kind |-> "Update", item |-> item.val])

OwnedCrud_delete_all(m, access, req, l, non_recursive) ==
    LET l1 == Append(l, EvPrelim(m, access, "delete_all")) IN
    IF ~preliminary_access_check(m, access.delete_all)
    THEN Stop(l1, UnauthorizedError)
    ELSE
    LET parent_id == get_optional_pksk(req, "parent_id")
        l2 == Append(l1, EvPkSk(req, "parent_id")) IN
    IF ~parent_id.ok THEN Stop(l2, parent_id.err)
    ELSE
    LET authorized == parent_authorized(m, access, "delete_all", l2, parent_id.val) IN
    IF ~authorized.ok THEN Stop(authorized.log, UnauthorizedError)
    ELSE Built(authorized.log,
               [kind |-> "DeleteAll", parent_id |-> parent_id.val,
                non_recursive |-> non_recursive])

OwnedCrud_delete_multiple(m, access, l, res, non_recursive) ==
    LET l1 == Append(l, EvPrelim(m, access, "batch_delete")) IN
    IF ~preliminary_access_check(m, access.batch_delete)
    THEN Stop(l1, UnauthorizedError)
    ELSE IF ~res.ok THEN Stop(l1, res.err)
    ELSE
    LET all_auth == all_authorized(m, access, "batch_delete", res.val, 1) IN
    IF ~all_auth.ok THEN Stop(l1 \o all_auth.log, UnauthorizedError)
    ELSE Built(l1 \o all_auth.log,
               [kind |-> "DeleteMultiple", ids |-> res.val,
                non_recursive |-> non_recursive])

\* Variant: a single delete is authorized against the owner the id has as a
\* parent.
OwnedCrud_delete_single_parent_owner(m, access, req, l, non_recursive) ==
    LET l1 == Append(l, EvPrelim(m, access, "delete")) IN
    IF ~preliminary_access_check(m, access.delete)
    THEN Stop(l1, UnauthorizedError)
    ELSE
    LET id == get_required_id(req)
        l2 == Append(l1, EvId(req)) IN
    IF ~id.ok THEN Stop(l2, id.err)
    ELSE
    LET authorized == parent_authorized(m, access, "delete", l2, id.val) IN
    IF ~authorized.ok THEN Stop(authorized.log, UnauthorizedError)
    ELSE Built(authorized.log,
               [kind |-> "Delete", id |-> id.val, non_recursive |-> non_recursive])

OwnedCrud_delete_single(m, access, req, l, non_recursive) ==
    LET l1 == Append(l, EvPrelim(m, access, "delete")) IN
    IF ~preliminary_access_check(m, access.delete)
    THEN Stop(l1, UnauthorizedError)
    ELSE
    LET id == get_required_id(req)
        l2 == Append(l1, EvId(req)) IN
    IF ~id.ok THEN Stop(l2, id.err)
    ELSE
    LET authorized == id_authorized(m, access, "delete", l2, id.val) IN
    IF ~authorized.ok THEN Stop(authorized.log, UnauthorizedError)
    ELSE Built(authorized.log,
               [kind |-> "Delete", id |-> id.val, non_recursive |-> non_recursive])

\* Variant: the ids parameter is looked at before the all flag.
OwnedCrud_delete_branches_ids_first(m, access, req, l, non_recursive) ==
    IF maybe_ids(req).some
    THEN OwnedCrud_delete_multiple(m, access, Append(l, EvIds(req)),
                                   maybe_ids(req), non_recursive)
    ELSE IF has_flag(req, "all")
         THEN OwnedCrud_delete_all(m, access, req,
                                   l \o <<EvIds(req), EvFlag(req, "all")>>,
                                   non_recursive)
         ELSE OwnedCrud_delete_single(m, access, req,
                                      l \o <<EvIds(req), EvFlag(req, "all")>>,
                                      non_recursive)

\* The branches of DELETE once the non_recursive guard has passed.
OwnedCrud_delete_branches(m, access, req, l, non_recursive) ==
    IF has_flag(req, "all")
    THEN OwnedCrud_delete_all(m, access, req, Append(l, EvFlag(req, "all")),
                              non_recursive)
    ELSE IF maybe_ids(req).some
         THEN OwnedCrud_delete_multiple(m, access,
                                        l \o <<EvFlag(req, "all"), EvIds(req)>>,
                                        maybe_ids(req), non_recursive)
         ELSE OwnedCrud_delete_single(m, access, req,
                                      l \o <<EvFlag(req, "all"), EvIds(req)>>,
                                      non_recursive)

OwnedCrud_delete(m, access, req) ==
    LET non_recursive == has_flag(req, "non_recursive")
        l0 == <<EvFlag(req, "non_recursive")>> IN
    IF non_recursive /\ ~access.allow_non_recursive_delete
    THEN Stop(l0, UnauthorizedError)
    ELSE OwnedCrud_delete_branches(m, access, req, l0, non_recursive)

OwnedCrud_match(m, access, req) ==
    CASE req.method = "POST" -> OwnedCrud_post(m, access, req)
      [] req.method = "GET" -> OwnedCrud_get(m, access, req)
      [] req.method = "PUT" -> OwnedCrud_put(m, access, req)
      [] req.method = "DELETE" -> OwnedCrud_delete(m, access, req)
      [] OTHER -> Stop(<<>>, CriticalError("unsupported HTTP method for CRUD route"))

----------------------------------------------------------------------------
\* resolve up to the await of the handler: the steps taken, and either the
\* error handed to build_err or the operation handed to the handler.

EvMetadata(req) == Ev("parse_request_metadata", "", Oe(parse_request_metadata(req)))

Crud_resolve(access, validation, req) ==
    LET md == parse_request_metadata(req) IN
    IF ~md.ok THEN Stop(<<EvMetadata(req)>>, md.err)
    ELSE LET d == Crud_match(md.val, access, req)
             dl == [d EXCEPT !.log = <<EvMetadata(req)>> \o d.log] IN
         IF d.op = NoOp THEN dl ELSE resolve_tail(validation, md.val, dl)

OwnedCrud_resolve(access, validation, req) ==
    LET md == parse_request_metadata(req) IN
    IF ~md.ok THEN Stop(<<EvMetadata(req)>>, md.err)
    ELSE LET d == OwnedCrud_match(md.val, access, req)
             dl == [d EXCEPT !.log = <<EvMetadata(req)>> \o d.log] IN
         IF d.op = NoOp THEN dl ELSE resolve_tail(validation, md.val, dl)

\* build_result: the handler's Ok goes to build_ok, its Err to build_err.
ViaBuildErr(e) == [via |-> "build_err", error |-> e, data |-> NONE]

ViaBuildOk(data) == [via |-> "build_ok", error |-> NoErr, data |-> data]

NoResponse == [via |-> NONE, error |-> NoErr, data |-> NONE]

build_result(res) == IF res.ok THEN ViaBuildOk(res.val) ELSE ViaBuildErr(res.err)

HandlerResults == {Ok("output"), Failed(Err("HandlerError", "detail"))}

----------------------------------------------------------------------------
\* Direct calls of the access helpers.

NoArgs == [metadata |-> NoMetadata, access |-> "None", owner |-> NONE]

NoRet == [fn |-> NONE, allowed |-> FALSE, preliminary |-> FALSE]

----------------------------------------------------------------------------
\* The CRUD route serving requests.

Init ==
    /\ route \in Routes
    /\ pc = "idle"
    /\ request = NoRequest
    /\ metadata = NoMetadata
    /\ log = <<>>
    /\ op = NoOp
    /\ response = NoResponse
    /\ handler_calls = 0
    /\ args = NoArgs
    /\ ret = NoRet

\* Variant: the handler is also called when resolve ends in an error.
Resolved_handler_on_error(req, r) ==
    /\ request' = req
    /\ metadata' = parse_request_metadata(req).val
    /\ log' = r.log
    /\ op' = r.op
    /\ IF r.op = NoOp
       THEN /\ pc' = "done"
            /\ response' = ViaBuildErr(r.err)
            /\ handler_calls' = handler_calls + 1
       ELSE /\ pc' = "handler"
            /\ response' = NoResponse
            /\ handler_calls' = handler_calls + 1
    /\ UNCHANGED <<route, args, ret>>

\* resolve runs from the arrival of the request to its first await or return.
Resolved(req, r) ==
    /\ request' = req
    /\ metadata' = parse_request_metadata(req).val
    /\ log' = r.log
    /\ op' = r.op
    /\ IF r.op = NoOp
       THEN /\ pc' = "done"
            /\ response' = ViaBuildErr(r.err)
            /\ handler_calls' = handler_calls
       ELSE /\ pc' = "handler"
            /\ response' = NoResponse
            /\ handler_calls' = handler_calls + 1
    /\ UNCHANGED <<route, args, ret>>

CrudResolve ==
    /\ pc = "idle"
    /\ route.kind = "Crud"
    /\ \E req \in Requests, validation \in Validations :
          Resolved(req, Crud_resolve(route.access, validation, req))

OwnedCrudResolve ==
    /\ pc = "idle"
    /\ route.kind = "OwnedCrud"
    /\ \E req \in Requests, validation \in Validations :
          Resolved(req, OwnedCrud_resolve(route.access, validation, req))

\* The handler's future completes and resolve returns build_result of it.
HandlerReturn ==
    /\ pc = "handler"
    /\ \E res \in HandlerResults : response' = build_result(res)
    /\ pc' = "done"
    /\ UNCHANGED <<route, request, metadata, log, op, handler_calls, args, ret>>

Next == CrudResolve \/ OwnedCrudResolve \/ HandlerReturn

Spec == Init /\ [][Next]_vars

----------------------------------------------------------------------------
\* The access helpers called on every identity, level and owner.

InitAccess ==
    /\ route = [kind |-> "OwnedCrud", access |-> Policy("create", "None", "None", FALSE)]
    /\ pc = "idle"
    /\ request = NoRequest
    /\ metadata = NoMetadata
    /\ log = <<>>
    /\ op = NoOp
    /\ response = NoResponse
    /\ handler_calls = 0
    /\ args \in [metadata : Metadatas, access : OwnedAccessLevels, owner : Owners]
    /\ ret = NoRet

\* The two checks an owned route makes for one request.
OwnedAccessCall ==
    /\ ret = NoRet
    /\ ret' = [fn |-> "owned",
               allowed |-> is_allowed_owned_access(args.metadata, args.access, args.owner),
               preliminary |-> preliminary_access_check(args.metadata, args.access)]
    /\ UNCHANGED <<crudVars, args>>

\* The check a non-owned route makes.
AccessCall ==
    /\ ret = NoRet
    /\ args.access \in AccessLevels
    /\ ret' = [fn |-> "plain",
               allowed |-> is_allowed_access(args.metadata, args.access),
               preliminary |-> FALSE]
    /\ UNCHANGED <<crudVars, args>>

NextAccess == OwnedAccessCall \/ AccessCall

SpecAccess == InitAccess /\ [][NextAccess]_vars

----------------------------------------------------------------------------
\* Properties.

CrudMethods == {"POST", "GET", "PUT", "DELETE"}

AuthSteps ==
    {"is_allowed_access", "preliminary_access_check", "is_allowed_owned_access"}

\* The policy field the derivation rules assign to a request.
ResolvedField(req) ==
    CASE req.method = "POST" ->
            IF req.replace_all # NONE THEN "replace_all"
            ELSE IF req.body.shape = "list" THEN "batch_create" ELSE "create"
      [] req.method = "GET" ->
            IF req.all # NONE THEN "list"
            ELSE IF req.ids.some THEN "batch_read" ELSE "read"
      [] req.method = "PUT" -> "update"
      [] req.method = "DELETE" ->
            IF req.all # NONE THEN "delete_all"
            ELSE IF req.ids.some THEN "batch_delete" ELSE "delete"

Unauthorized == pc = "done" /\ response = ViaBuildErr(UnauthorizedError)

\* C1: whenever the final owned check allows, the preliminary check on the
\* same identity and level allows too.
C1_PreliminarySound ==
    (ret.fn = "owned" /\ ret.allowed) => ret.preliminary

\* C2: the None level denies in all three helpers for every identity and
\* owner, and a CRUD request whose resolved policy field is None never
\* reaches the handler.
C2_NoneAlwaysDenies ==
    /\ \A m \in Metadatas :
          /\ ~is_allowed_access(m, "None")
          /\ ~preliminary_access_check(m, "None")
          /\ \A o \in Owners : ~is_allowed_owned_access(m, "None", o)
    /\ (/\ pc # "idle"
        /\ request.method \in CrudMethods
        /\ route.access[ResolvedField(request)] = "None")
       => /\ pc = "done"
          /\ handler_calls = 0
          /\ op = NoOp
          /\ response.via = "build_err"

\* An authenticated admin is refused on a field left at None while another
\* field of the same policy is open.
C2_Witness ==
    /\ Unauthorized
    /\ request.auth.valid /\ request.auth.is_authenticated /\ request.auth.is_admin
    /\ request.method = "DELETE"
    /\ route.access[ResolvedField(request)] = "None"
    /\ route.access.create = "Guest"

\* The truth table of the final check as the documentation states it.
StatedFinal(m, access, owner) ==
    CASE access = "Guest" -> TRUE
      [] access = "AnyUser" -> m.is_authenticated
      [] access = "Admin" -> m.is_authenticated /\ m.is_admin
      [] access = "Owner" -> m.user_sub = owner
      [] access = "OwnerOrAdmin" -> m.is_admin \/ m.user_sub = owner
      [] access = "None" -> FALSE

\* The table with OwnerOrAdmin requiring an authenticated admin.
AmendedFinal(m, access, owner) ==
    CASE access = "OwnerOrAdmin" ->
            (m.is_authenticated /\ m.is_admin) \/ m.user_sub = owner
      [] OTHER -> StatedFinal(m, access, owner)

\* C10 as stated: with a known owner the final check equals the stated
\* table, OwnerOrAdmin allowing whenever is_admin is true.
C10_StatedTable ==
    (ret.fn = "owned" /\ args.owner # NONE)
       => ret.allowed = StatedFinal(args.metadata, args.access, args.owner)

\* C10 amended: with a known owner the final check equals the table in
\* which OwnerOrAdmin is (is_authenticated and is_admin) or subject = owner.
C10_AmendedTable ==
    (ret.fn = "owned" /\ args.owner # NONE)
       => ret.allowed = AmendedFinal(args.metadata, args.access, args.owner)

\* OwnerOrAdmin refuses a caller flagged admin but not authenticated who
\* is not the owner.
C10_Witness ==
    /\ ret.fn = "owned"
    /\ args.access = "OwnerOrAdmin"
    /\ args.owner = "u2"
    /\ args.metadata.is_admin /\ ~args.metadata.is_authenticated
    /\ ~ret.allowed

----------------------------------------------------------------------------
\* CRUD resolver properties.

HasStep(e) == \E i \in DOMAIN log : log[i].e = e

\* The policy fields some authorization step was evaluated against.
AuthFieldsUsed == {log[i].a : i \in {j \in DOMAIN log : log[j].e \in AuthSteps}}

\* A request of an identified caller has been resolved.
Resolving == pc # "idle" /\ request.auth.valid

ParsedParent == get_optional_pksk(request, "parent_id")

ParsedAfter == get_optional_pksk(request, "after")

\* The first authorization step of the route on field f.
Gate(f) ==
    IF route.kind = "Crud"
    THEN is_allowed_access(metadata, route.access[f])
    ELSE preliminary_access_check(metadata, route.access[f])

\* Full authorization on field f for an operation on the parent.
ParentAuthorized(f) ==
    /\ Gate(f)
    /\ route.kind = "OwnedCrud"
          => is_allowed_owned_access(metadata, route.access[f],
                                     parent_owner(ParsedParent.val))

BatchField == IF request.method = "GET" THEN "batch_read" ELSE "batch_delete"

BatchRequest ==
    /\ Resolving
    /\ route.kind = "OwnedCrud"
    /\ request.method \in {"GET", "DELETE"}
    /\ request.all = NONE
    /\ request.ids.some
    /\ maybe_ids(request).ok
    /\ Len(maybe_ids(request).val) >= 2
    /\ ~(/\ request.method = "DELETE"
         /\ request.non_recursive # NONE
         /\ ~route.access.allow_non_recursive_delete)

IdPasses(id) ==
    is_allowed_owned_access(metadata, route.access[BatchField], owner_of_id(id))

\* C3: an owned batch read or delete of two or more ids in which one id
\* fails the final check is refused as a whole: unauthorized, no operation,
\* no validation, no handler call; the handler runs only if every id passes.
C3_BatchAllOrNothing ==
    BatchRequest =>
        /\ (\E i \in DOMAIN maybe_ids(request).val :
                ~IdPasses(maybe_ids(request).val[i]))
           => /\ Unauthorized
              /\ op = NoOp
              /\ ~HasStep("validate")
              /\ handler_calls = 0
        /\ handler_calls > 0
           => \A i \in DOMAIN maybe_ids(request).val :
                  IdPasses(maybe_ids(request).val[i])
        /\ (/\ Gate(BatchField)
            /\ \A i \in DOMAIN maybe_ids(request).val :
                  IdPasses(maybe_ids(request).val[i]))
           => HasStep("validate")

\* The first id passes, the second does not, and the batch is refused.
C3_Witness ==
    /\ BatchRequest
    /\ Len(maybe_ids(request).val) = 2
    /\ IdPasses(maybe_ids(request).val[1])
    /\ ~IdPasses(maybe_ids(request).val[2])
    /\ Gate(BatchField)
    /\ Unauthorized

\* C4: in both resolvers validation runs only after every authorization
\* step of the resolved operation has passed, the handler is called only
\* right after validation succeeded, and a validation failure ends in an
\* error response without a handler call.
C4_PipelineOrder ==
    /\ \A i \in DOMAIN log :
          log[i].e = "validate" =>
             /\ \E j \in 1..(i - 1) :
                   /\ log[j].e \in AuthSteps
                   /\ log[j].a = ResolvedField(request)
             /\ \A j \in DOMAIN log :
                   log[j].e \in AuthSteps => (j < i /\ log[j].r = "true")
             /\ route.kind = "OwnedCrud"
                   => /\ \E j \in 1..(i - 1) : log[j].e = "preliminary_access_check"
                      /\ \E j \in 1..(i - 1) : log[j].e = "is_allowed_owned_access"
    /\ \A i \in DOMAIN log :
          log[i].e = "handler" =>
             /\ i > 1
             /\ log[i - 1].e = "validate"
             /\ log[i - 1].r = "ok"
    /\ handler_calls > 0 => HasStep("handler")
    /\ (\E i \in DOMAIN log : log[i].e = "validate" /\ log[i].r = "err")
          => /\ pc = "done"
             /\ response.via = "build_err"
             /\ handler_calls = 0

\* An authorized operation of an owned route stopped by its validation.
C4_Witness ==
    /\ route.kind = "OwnedCrud"
    /\ pc = "done"
    /\ \E i \in DOMAIN log : log[i].e = "validate" /\ log[i].r = "err"
    /\ response = ViaBuildErr(Err("ValidationError", "A"))

\* C5: DELETE with non_recursive present on a policy that does not allow it
\* is refused for every identity before anything is parsed, any level is
\* evaluated or any owner is looked up.
C5_NonRecursiveDenied ==
    (/\ Resolving
     /\ request.method = "DELETE"
     /\ request.non_recursive # NONE
     /\ ~route.access.allow_non_recursive_delete)
    => /\ Unauthorized
       /\ handler_calls = 0
       /\ op = NoOp
       /\ \A i \in DOMAIN log :
             log[i].e \in {"parse_request_metadata", "has_flag"}

\* An authenticated admin on an open policy, all, ids and id all present.
C5_Witness ==
    /\ Resolving
    /\ request.method = "DELETE"
    /\ request.non_recursive # NONE
    /\ ~route.access.allow_non_recursive_delete
    /\ route.access.delete_all = "Guest"
    /\ metadata.is_authenticated /\ metadata.is_admin
    /\ request.all # NONE /\ request.ids.some /\ request.id = "i1"
    /\ Unauthorized

\* C6: POST with replace_all present resolves to ReplaceAll under the
\* replace_all field whatever the body: no other field is evaluated, the
\* body is only ever parsed as a list, and an authorized caller whose body
\* is not a list gets the parsing error without a handler call.
C6_ReplaceAllNoFallback ==
    (/\ Resolving
     /\ request.method = "POST"
     /\ request.replace_all # NONE)
    => /\ AuthFieldsUsed = {"replace_all"}
       /\ op # NoOp => op.kind = "ReplaceAll"
       /\ \A i \in DOMAIN log :
             log[i].e = "parse_request_data" => log[i].a = "Vec<Data>"
       /\ request.body.shape # "list" => (pc = "done" /\ handler_calls = 0)
       /\ (/\ request.body.shape # "list"
           /\ ParsedParent.ok
           /\ ParentAuthorized("replace_all"))
          => response = ViaBuildErr(InvalidRequestError("body"))

\* A single object sent with replace_all by an authorized caller.
C6_Witness ==
    /\ Resolving
    /\ request.method = "POST"
    /\ request.replace_all # NONE
    /\ request.body.shape = "object"
    /\ route.access.create = "Guest"
    /\ response = ViaBuildErr(InvalidRequestError("body"))

CreateField == IF request.body.shape = "list" THEN "batch_create" ELSE "create"

\* C7: POST without replace_all takes the field from the body shape alone:
\* a list is CreateMultiple under batch_create only, anything else is
\* Create under create only; parent_id and after reach the operation as
\* parsed.
C7_PostByBodyShape ==
    (/\ Resolving
     /\ request.method = "POST"
     /\ request.replace_all = NONE
     /\ ParsedParent.ok
     /\ ParsedAfter.ok)
    => /\ AuthFieldsUsed = {CreateField}
       /\ op # NoOp
          => /\ op.kind = (IF request.body.shape = "list"
                           THEN "CreateMultiple" ELSE "Create")
             /\ op.parent_id = ParsedParent.val
             /\ op.after = ParsedAfter.val
             /\ op.data = request.body
       /\ ~ParentAuthorized(CreateField)
          => (Unauthorized /\ handler_calls = 0)
       /\ (ParentAuthorized(CreateField)
           /\ request.body.shape \in {"list", "object"})
          => HasStep("validate")

\* A list body on a policy that opens create and leaves batch_create at None.
C7_Witness ==
    /\ Resolving
    /\ request.method = "POST"
    /\ request.replace_all = NONE
    /\ request.body.shape = "list"
    /\ request.parent_id = "p1" /\ request.after = "a1"
    /\ route.access.create = "Guest"
    /\ route.access.batch_create = "None"
    /\ Unauthorized

\* C8: GET takes all before ids before id: all gives List under list even
\* with ids and id present; else a present ids gives ReadMultiple under
\* batch_read and a malformed one is an error that never reaches the id
\* branch; else Read under read with id required.
C8_GetPrecedence ==
    (Resolving /\ request.method = "GET")
    => /\ request.all # NONE
          => /\ AuthFieldsUsed = {"list"}
             /\ op # NoOp => op.kind = "List"
             /\ (ParsedParent.ok /\ ParentAuthorized("list")) => HasStep("validate")
             /\ ~HasStep("get_required_id")
       /\ (request.all = NONE /\ request.ids.some)
          => /\ AuthFieldsUsed = {"batch_read"}
             /\ op # NoOp
                => (op.kind = "ReadMultiple" /\ op.ids = maybe_ids(request).val)
             /\ ~HasStep("get_required_id")
             /\ ~maybe_ids(request).ok
                => /\ pc = "done"
                   /\ handler_calls = 0
                   /\ response =
                         IF Gate("batch_read")
                         THEN ViaBuildErr(maybe_ids(request).err)
                         ELSE ViaBuildErr(UnauthorizedError)
       /\ (request.all = NONE /\ ~request.ids.some)
          => /\ AuthFieldsUsed = {"read"}
             /\ op # NoOp
                => (op.kind = "Read" /\ op.id = get_required_id(request).val)
             /\ (Gate("read") /\ ~get_required_id(request).ok)
                => response = ViaBuildErr(get_required_id(request).err)

\* all, ids and id together: the handler is given List.
C8_Witness ==
    /\ Resolving
    /\ request.method = "GET"
    /\ request.all # NONE /\ request.ids.some /\ request.id = "i1"
    /\ pc = "handler"
    /\ op.kind = "List"

\* C9: DELETE takes all before ids before id, each under its own field
\* (delete_all, batch_delete, delete), and the operation's non_recursive is
\* the presence of the flag.
C9_DeletePrecedence ==
    (/\ Resolving
     /\ request.method = "DELETE"
     /\ ~(request.non_recursive # NONE /\ ~route.access.allow_non_recursive_delete))
    => /\ op # NoOp => op.non_recursive = (request.non_recursive # NONE)
       /\ request.all # NONE
          => /\ AuthFieldsUsed = {"delete_all"}
             /\ op # NoOp => op.kind = "DeleteAll"
             /\ (ParsedParent.ok /\ ParentAuthorized("delete_all"))
                => HasStep("validate")
             /\ ~HasStep("get_required_id")
       /\ (request.all = NONE /\ request.ids.some)
          => /\ AuthFieldsUsed = {"batch_delete"}
             /\ op # NoOp
                => (op.kind = "DeleteMultiple" /\ op.ids = maybe_ids(request).val)
             /\ ~HasStep("get_required_id")
       /\ (request.all = NONE /\ ~request.ids.some)
          => /\ AuthFieldsUsed = {"delete"}
             /\ op # NoOp
                => (op.kind = "Delete" /\ op.id = get_required_id(request).val)

\* all, ids, id and non_recursive together on an owned route.
C9_Witness ==
    /\ Resolving
    /\ route.kind = "OwnedCrud"
    /\ request.method = "DELETE"
    /\ request.all # NONE /\ request.ids.some /\ request.id = "i1"
    /\ request.non_recursive # NONE
    /\ pc = "handler"
    /\ op.kind = "DeleteAll"
    /\ op.non_recursive

----------------------------------------------------------------------------
\* The final check without a resolved owner.

\* C11 as stated: with no owner, every level but Guest denies.
C11_StatedNoOwner ==
    (ret.fn = "owned" /\ args.owner = NONE /\ args.access # "Guest")
    => ~ret.allowed

\* C11: with no owner the comparison of owner and subject never succeeds:
\* Owner and None deny every identity, OwnerOrAdmin allows only an
\* authenticated admin, and Guest, AnyUser and Admin decide on the identity
\* alone.
C11_NoOwnerNeverMatches ==
    (ret.fn = "owned" /\ args.owner = NONE)
    => ret.allowed =
          CASE args.access = "Guest" -> TRUE
            [] args.access = "AnyUser" -> args.metadata.is_authenticated
            [] args.access \in {"Admin", "OwnerOrAdmin"} ->
                  args.metadata.is_authenticated /\ args.metadata.is_admin
            [] args.access \in {"Owner", "None"} -> FALSE

\* An authenticated caller without a subject is allowed at AnyUser although
\* no owner is known.
C11_Witness ==
    /\ ret.fn = "owned"
    /\ args.owner = NONE
    /\ args.access = "AnyUser"
    /\ args.metadata.is_authenticated
    /\ args.metadata.user_sub = NONE
    /\ ret.allowed

----------------------------------------------------------------------------
\* Response building (shared/response_building.rs).

MaxLen == 2

Some(v) == [some |-> TRUE, v |-> v]

None == [some |-> FALSE]

\* ResponseWrapper { ok, data, error }.
ResponseWrapper(ok, data, error) == [ok |-> ok, data |-> data, error |-> error]

\* serde_json::to_string(&wrapper): a field that is None is skipped.
wrapper_to_string(w) ==
    CASE w.data.some /\ w.error.some ->
            [ok |-> w.ok, data |-> w.data.v, error |-> w.error.v]
      [] w.data.some /\ ~w.error.some -> [ok |-> w.ok, data |-> w.data.v]
      [] ~w.data.some /\ w.error.some -> [ok |-> w.ok, error |-> w.error.v]
      [] OTHER -> [ok |-> w.ok]

NoJson == [none |-> TRUE]

\* Body::Text holding a serialized wrapper, and Body::Text holding a message.
JsonBody(w) == [kind |-> "json", text |-> "", json |-> wrapper_to_string(w)]

TextBody(s) == [kind |-> "plain", text |-> s, json |-> NoJson]

build_headers(content_type) ==
    [content_type |->
        IF content_type = "Json"
        THEN "application/json; charset=utf-8"
        ELSE "text/plain; charset=utf-8",
     access_control_allow_origin |-> "https://fractic.io",
     access_control_allow_headers |->
        "Content-Type,X-Amz-Date,Authorization,X-Api-Key,X-Amz-Security-Token,X-Amz-User-Agent",
     access_control_allow_methods |-> "GET, POST, PUT, DELETE",
     access_control_allow_credentials |-> "true"]

ApiGatewayProxyResponse(status_code, headers, body) ==
    [status_code |-> status_code,
     headers |-> headers,
     body |-> body,
     is_base64_encoded |-> FALSE]

INTERNAL_SERVER_ERROR_MSG == "Internal server error."

UNAUTHORIZED_ERROR_MSG == "Unauthorized."

\* ServerErrorBehaviour, and the errors build_err is given: behaviour() and
\* message() are what the error returns, debug is the detail it prints.
ForwardBehaviours ==
    {"ForwardToClient", "LogWarningForwardToClient", "LogErrorForwardToClient"}

FixedMsgBehaviours ==
    {"LogWarningSendFixedMsgToClient", "LogErrorSendFixedMsgToClient"}

StatusBehaviours == {"ReturnInternalServerError", "ReturnUnauthorized"}

Messages == {"m1", "m2"}

Debugs == {"d1", "d2"}

FixedMsgs == {"f1", "f2"}

ServerErrors ==
    [behaviour : ForwardBehaviours \cup StatusBehaviours, fixed_msg : {NONE},
     message : Messages, debug : Debugs]
    \cup [behaviour : FixedMsgBehaviours, fixed_msg : FixedMsgs,
          message : Messages, debug : Debugs]

forward_to_client(public_msg) ==
    ApiGatewayProxyResponse(200, build_headers("Json"),
        JsonBody(ResponseWrapper(FALSE, None, Some(public_msg))))

error_response(error_code, public_msg) ==
    ApiGatewayProxyResponse(error_code, build_headers("Text"), TextBody(public_msg))

\* Variant: ReturnUnauthorized is forwarded in the envelope like a client
\* error.
build_err_unauthorized_forwarded(error) ==
    CASE error.behaviour \in ForwardBehaviours -> forward_to_client(error.message)
      [] error.behaviour \in FixedMsgBehaviours -> forward_to_client(error.fixed_msg)
      [] error.behaviour = "ReturnInternalServerError" ->
            error_response(500, INTERNAL_SERVER_ERROR_MSG)
      [] error.behaviour = "ReturnUnauthorized" ->
            forward_to_client(UNAUTHORIZED_ERROR_MSG)

\* Variant: the 500 body carries the error's own message.
build_err_message_in_500(error) ==
    CASE error.behaviour \in ForwardBehaviours -> forward_to_client(error.message)
      [] error.behaviour \in FixedMsgBehaviours -> forward_to_client(error.fixed_msg)
      [] error.behaviour = "ReturnInternalServerError" ->
            error_response(500, error.message)
      [] error.behaviour = "ReturnUnauthorized" ->
            error_response(401, UNAUTHORIZED_ERROR_MSG)

\* Variant: the unauthorized response is sent with status 403.
build_err_forbidden(error) ==
    CASE error.behaviour \in ForwardBehaviours -> forward_to_client(error.message)
      [] error.behaviour \in FixedMsgBehaviours -> forward_to_client(error.fixed_msg)
      [] error.behaviour = "ReturnInternalServerError" ->
            error_response(500, INTERNAL_SERVER_ERROR_MSG)
      [] error.behaviour = "ReturnUnauthorized" ->
            error_response(403, UNAUTHORIZED_ERROR_MSG)

build_err(error) ==
    CASE error.behaviour = "ForwardToClient" -> forward_to_client(error.message)
      [] error.behaviour = "LogWarningForwardToClient" -> forward_to_client(error.message)
      [] error.behaviour = "LogErrorForwardToClient" -> forward_to_client(error.message)
      [] error.behaviour = "LogWarningSendFixedMsgToClient" ->
            forward_to_client(error.fixed_msg)
      [] error.behaviour = "LogErrorSendFixedMsgToClient" ->
            forward_to_client(error.fixed_msg)
      [] error.behaviour = "ReturnInternalServerError" ->
            error_response(500, INTERNAL_SERVER_ERROR_MSG)
      [] error.behaviour = "ReturnUnauthorized" ->
            error_response(401, UNAUTHORIZED_ERROR_MSG)

\* What build_err prints: the error in full on the stream of its logging
\* level, and a note when the error is forwarded.
build_err_output(error) ==
    LET level ==
            CASE error.behaviour = "ForwardToClient" -> "INFO"
              [] error.behaviour \in
                    {"LogWarningForwardToClient", "LogWarningSendFixedMsgToClient"} ->
                    "WARNING"
              [] OTHER -> "ERROR"
        line == [stream |-> IF level = "ERROR" THEN "stderr" ELSE "stdout",
                 level |-> level, message |-> error.message, debug |-> error.debug]
    IN  IF error.behaviour \in StatusBehaviours
        THEN <<line>>
        ELSE <<line,
               [stream |-> "stdout", level |-> "NOTE", message |-> "", debug |-> ""]>>

----------------------------------------------------------------------------
\* Encoding of a payload: JSON, gzip, base64. Text is a sequence of byte
\* values.

Quote == 34

Backslash == 92

PayloadChars == {97, Quote}

PayloadStrings == UNION {[1..n -> PayloadChars] : n \in 0..MaxLen}

\* The handler's return value: a String, or a struct with one String field
\* named key.
Payloads ==
    [kind : {"String"}, s : PayloadStrings]
    \cup [kind : {"Object"}, s : PayloadStrings]

\* The text of a JSON string, quotes and backslashes escaped.
RECURSIVE escape(_)
escape(s) ==
    IF s = <<>> THEN <<>>
    ELSE (IF Head(s) \in {Quote, Backslash}
          THEN <<Backslash, Head(s)>>
          ELSE <<Head(s)>>) \o escape(Tail(s))

json_string(s) == <<Quote>> \o escape(s) \o <<Quote>>

\* {"key":
ObjectOpen == <<123, Quote, 107, 101, 121, Quote, 58>>

ObjectClose == <<125>>

\* serde_json::to_vec(&data).
serde_json_to_vec(data) ==
    IF data.kind = "String"
    THEN json_string(data.s)
    ELSE ObjectOpen \o json_string(data.s) \o ObjectClose

\* The characters between the quotes of a JSON string, unescaped; fails on a
\* bare quote or a dangling backslash.
RECURSIVE unescape(_)
unescape(t) ==
    LET after_escape == unescape(SubSeq(t, 3, Len(t)))
        after_char == unescape(Tail(t)) IN
    IF t = <<>> THEN Ok(<<>>)
    ELSE IF Head(t) = Backslash
         THEN IF Len(t) >= 2 /\ t[2] \in {Quote, Backslash} /\ after_escape.ok
              THEN Ok(<<t[2]>> \o after_escape.val)
              ELSE Failed(Err("serde_json", "escape"))
         ELSE IF Head(t) = Quote \/ ~after_char.ok
              THEN Failed(Err("serde_json", "quote"))
              ELSE Ok(<<Head(t)>> \o after_char.val)

parse_json_string(t) ==
    IF Len(t) >= 2 /\ t[1] = Quote /\ t[Len(t)] = Quote
    THEN unescape(SubSeq(t, 2, Len(t) - 1))
    ELSE Failed(Err("serde_json", "string"))

\* serde_json::from_str::<T>(text) for T the payload's type.
serde_json_from_str(t, kind) ==
    LET whole == parse_json_string(t)
        field == parse_json_string(SubSeq(t, Len(ObjectOpen) + 1, Len(t) - 1)) IN
    IF kind = "String"
    THEN IF whole.ok
         THEN Ok([kind |-> "String", s |-> whole.val])
         ELSE whole
    ELSE IF /\ Len(t) >= Len(ObjectOpen) + Len(ObjectClose)
            /\ SubSeq(t, 1, Len(ObjectOpen)) = ObjectOpen
            /\ SubSeq(t, Len(t), Len(t)) = ObjectClose
            /\ field.ok
         THEN Ok([kind |-> "Object", s |-> field.val])
         ELSE Failed(Err("serde_json", "object"))

\* The gzip member: the ten-byte header, one stored deflate block (final,
\* LEN and its complement, the bytes), and the input size modulo 2^32 in
\* four little-endian bytes. The compressed form of the block and the
\* CRC-32 field are not modelled.
GzHeader == <<31, 139, 8, 0, 0, 0, 0, 0, 0, 255>>

le32(n) ==
    <<n % 256, (n \div 256) % 256, (n \div 65536) % 256, (n \div 16777216) % 256>>

stored_block(input) ==
    <<1, Len(input) % 256, Len(input) \div 256,
      255 - (Len(input) % 256), 255 - (Len(input) \div 256)>> \o input

gzip(input) == GzHeader \o stored_block(input) \o le32(Len(input))

\* GzDecoder::read_to_string.
gunzip(z) ==
    LET n == Len(z) - 19 IN
    IF /\ n >= 0
       /\ SubSeq(z, 1, 10) = GzHeader
       /\ SubSeq(z, 11, 15) =
             <<1, n % 256, n \div 256, 255 - (n % 256), 255 - (n \div 256)>>
       /\ SubSeq(z, Len(z) - 3, Len(z)) = le32(n)
    THEN Ok(SubSeq(z, 16, 15 + n))
    ELSE Failed(Err("gzip", "corrupt"))

\* The STANDARD alphabet: A-Z, a-z, 0-9, +, /; padding is =.
Pad == 61

base64_char(i) ==
    CASE i < 26 -> 65 + i
      [] i >= 26 /\ i < 52 -> 97 + (i - 26)
      [] i >= 52 /\ i < 62 -> 48 + (i - 52)
      [] i = 62 -> 43
      [] i = 63 -> 47

base64_index(c) ==
    CASE c >= 65 /\ c <= 90 -> c - 65
      [] c >= 97 /\ c <= 122 -> c - 97 + 26
      [] c >= 48 /\ c <= 57 -> c - 48 + 52
      [] c = 43 -> 62
      [] c = 47 -> 63
      [] OTHER -> 64

RECURSIVE base64_encode(_)
base64_encode(b) ==
    CASE Len(b) = 0 -> <<>>
      [] Len(b) = 1 ->
            <<base64_char(b[1] \div 4), base64_char((b[1] % 4) * 16), Pad, Pad>>
      [] Len(b) = 2 ->
            <<base64_char(b[1] \div 4),
              base64_char((b[1] % 4) * 16 + b[2] \div 16),
              base64_char((b[2] % 16) * 4), Pad>>
      [] OTHER ->
            <<base64_char(b[1] \div 4),
              base64_char((b[1] % 4) * 16 + b[2] \div 16),
              base64_char((b[2] % 16) * 4 + b[3] \div 64),
              base64_char(b[3] % 64)>> \o base64_encode(SubSeq(b, 4, Len(b)))

\* base64 STANDARD decode: groups of four, padding only in the last group,
\* no stray bits under the padding.
RECURSIVE base64_decode(_)
base64_decode(s) ==
    LET i1 == base64_index(s[1])
        i2 == base64_index(s[2])
        i3 == base64_index(s[3])
        i4 == base64_index(s[4])
        rest == base64_decode(SubSeq(s, 5, Len(s)))
        bad == Failed(Err("base64", "invalid")) IN
    IF s = <<>> THEN Ok(<<>>)
    ELSE IF Len(s) < 4 \/ i1 = 64 \/ i2 = 64 THEN bad
    ELSE IF s[3] = Pad
         THEN IF Len(s) = 4 /\ s[4] = Pad /\ i2 % 16 = 0
              THEN Ok(<<i1 * 4 + i2 \div 16>>)
              ELSE bad
    ELSE IF i3 = 64 THEN bad
    ELSE IF s[4] = Pad
         THEN IF Len(s) = 4 /\ i3 % 4 = 0
              THEN Ok(<<i1 * 4 + i2 \div 16, (i2 % 16) * 16 + i3 \div 4>>)
              ELSE bad
    ELSE IF i4 = 64 \/ ~rest.ok THEN bad
    ELSE Ok(<<i1 * 4 + i2 \div 16, (i2 % 16) * 16 + i3 \div 4, (i3 % 4) * 64 + i4>>
            \o rest.val)

gzip_base64(input) == base64_encode(gzip(input))

\* The decode helper of the tests: base64, then gzip.
decode(payload) ==
    LET bytes == base64_decode(payload) IN
    IF bytes.ok THEN gunzip(bytes.val) ELSE bytes

\* Variant: the payload is base64 of the JSON text, not compressed.
build_ok_uncompressed(data) ==
    ApiGatewayProxyResponse(200, build_headers("Json"),
        JsonBody(ResponseWrapper(TRUE, Some(base64_encode(serde_json_to_vec(data))), None)))

build_ok(data) ==
    ApiGatewayProxyResponse(200, build_headers("Json"),
        JsonBody(ResponseWrapper(TRUE, Some(gzip_base64(serde_json_to_vec(data))), None)))

----------------------------------------------------------------------------
\* The response builders called on every error and payload; log is the
\* history of the calls.

MaxCalls == 2

InitResponse ==
    /\ route = [kind |-> "Crud", access |-> Policy("create", "None", "None", FALSE)]
    /\ pc = "idle"
    /\ request = NoRequest
    /\ metadata = NoMetadata
    /\ log = <<>>
    /\ op = NoOp
    /\ response = NoResponse
    /\ handler_calls = 0
    /\ args = NoArgs
    /\ ret = NoRet

BuildErr ==
    /\ Len(log) < MaxCalls
    /\ \E error \in ServerErrors :
          /\ args' = error
          /\ ret' = build_err(error)
          /\ log' = Append(log, [fn |-> "build_err", arg |-> error,
                                 response |-> build_err(error),
                                 out |-> build_err_output(error)])
    /\ UNCHANGED <<route, pc, request, metadata, op, response, handler_calls>>

BuildOk ==
    /\ Len(log) < MaxCalls
    /\ \E data \in Payloads :
          /\ args' = data
          /\ ret' = build_ok(data)
          /\ log' = Append(log, [fn |-> "build_ok", arg |-> data,
                                 response |-> build_ok(data), out |-> <<>>])
    /\ UNCHANGED <<route, pc, request, metadata, op, response, handler_calls>>

NextResponse == BuildErr \/ BuildOk

SpecResponse == InitResponse /\ [][NextResponse]_vars

----------------------------------------------------------------------------
\* Response builder properties.

BuildErrCalls == {i \in DOMAIN log : log[i].fn = "build_err"}

BuildOkCalls == {i \in DOMAIN log : log[i].fn = "build_ok"}

IsErrorEnvelope(r) ==
    /\ r.status_code = 200
    /\ r.headers.content_type = "application/json; charset=utf-8"
    /\ r.body.kind = "json"
    /\ r.body.json.ok = FALSE
    /\ "error" \in DOMAIN r.body.json
    /\ "data" \notin DOMAIN r.body.json

IsPlainText(r, status, text) ==
    /\ r.status_code = status
    /\ r.headers.content_type = "text/plain; charset=utf-8"
    /\ r.body = TextBody(text)

\* C12: build_err maps the behaviour to the response by a closed table: the
\* three forwarding and the two fixed-message behaviours give 200 with an
\* envelope (ok false, an error text, no data), ReturnInternalServerError
\* gives 500 and ReturnUnauthorized 401 in plain text without envelope, and
\* the status differs from 200 exactly for those two.
C12_ErrorTable ==
    \A i \in BuildErrCalls :
        /\ log[i].arg.behaviour \in ForwardBehaviours \cup FixedMsgBehaviours
              => IsErrorEnvelope(log[i].response)
        /\ log[i].arg.behaviour = "ReturnInternalServerError"
              => IsPlainText(log[i].response, 500, INTERNAL_SERVER_ERROR_MSG)
        /\ log[i].arg.behaviour = "ReturnUnauthorized"
              => IsPlainText(log[i].response, 401, UNAUTHORIZED_ERROR_MSG)
        /\ log[i].response.status_code # 200
              <=> log[i].arg.behaviour \in StatusBehaviours

\* An unauthorized error answered with 401 after a fixed-message error
\* answered with 200.
C12_Witness ==
    /\ Len(log) = 2
    /\ log[1].fn = "build_err"
    /\ log[1].arg.behaviour = "LogErrorSendFixedMsgToClient"
    /\ log[1].response.status_code = 200
    /\ log[2].fn = "build_err"
    /\ log[2].arg.behaviour = "ReturnUnauthorized"
    /\ log[2].response.status_code = 401

\* C13: the response depends on the error's message only for the three
\* forwarding behaviours: two errors with the same status or fixed-message
\* behaviour get identical responses whatever their messages and details,
\* and the text sent is the generic constant or the fixed message.
C13_NoLeak ==
    /\ \A i \in BuildErrCalls, j \in BuildErrCalls :
          (/\ log[i].arg.behaviour \notin ForwardBehaviours
           /\ log[i].arg.behaviour = log[j].arg.behaviour
           /\ log[i].arg.fixed_msg = log[j].arg.fixed_msg)
          => log[i].response = log[j].response
    /\ \A i \in BuildErrCalls :
          /\ log[i].arg.behaviour = "ReturnInternalServerError"
                => log[i].response.body = TextBody(INTERNAL_SERVER_ERROR_MSG)
          /\ log[i].arg.behaviour = "ReturnUnauthorized"
                => log[i].response.body = TextBody(UNAUTHORIZED_ERROR_MSG)
          /\ log[i].arg.behaviour \in FixedMsgBehaviours
                => log[i].response.body.json.error = log[i].arg.fixed_msg
          /\ log[i].arg.behaviour \in ForwardBehaviours
                => log[i].response.body.json.error = log[i].arg.message

\* Two internal errors that differ in message and detail, answered alike.
C13_Witness ==
    /\ Len(log) = 2
    /\ log[1].fn = "build_err" /\ log[2].fn = "build_err"
    /\ log[1].arg.behaviour = "ReturnInternalServerError"
    /\ log[2].arg.behaviour = "ReturnInternalServerError"
    /\ log[1].arg.message # log[2].arg.message
    /\ log[1].arg.debug # log[2].arg.debug
    /\ log[1].response = log[2].response

\* C15: build_ok answers 200 with an envelope in which ok is true, error is
\* absent and data decodes, base64 then gzip, to the JSON text of the
\* payload, from which the payload is read back.
C15_OkRoundTrip ==
    \A i \in BuildOkCalls :
        /\ log[i].response.status_code = 200
        /\ log[i].response.headers.content_type = "application/json; charset=utf-8"
        /\ log[i].response.body.kind = "json"
        /\ log[i].response.body.json.ok = TRUE
        /\ "error" \notin DOMAIN log[i].response.body.json
        /\ "data" \in DOMAIN log[i].response.body.json
        /\ LET text == decode(log[i].response.body.json.data) IN
              /\ text = Ok(serde_json_to_vec(log[i].arg))
              /\ serde_json_from_str(text.val, log[i].arg.kind) = Ok(log[i].arg)

\* A struct whose field holds a quote, and a string payload of another
\* length, both built.
C15_Witness ==
    /\ Len(log) = 2
    /\ log[1].fn = "build_ok" /\ log[2].fn = "build_ok"
    /\ log[1].arg = [kind |-> "Object", s |-> <<Quote, 97>>]
    /\ log[2].arg = [kind |-> "String", s |-> <<97>>]
    /\ decode(log[1].response.body.json.data).ok

----------------------------------------------------------------------------
\* The response on the wire of a refused request.

\* The ServerError behind the errors of crate::errors that build_err's tests
\* show on the wire.
server_error(e) ==
    CASE e.type = "UnauthorizedError" ->
            [behaviour |-> "ReturnUnauthorized", fixed_msg |-> NONE,
             message |-> e.msg, debug |-> ""]
      [] e.type = "CriticalError" ->
            [behaviour |-> "ReturnInternalServerError", fixed_msg |-> NONE,
             message |-> e.msg, debug |-> ""]

\* An unauthenticated single read on a non-owned route whose read level is
\* AnyUser.
UnauthenticatedRead ==
    /\ pc # "idle"
    /\ route.kind = "Crud"
    /\ route.access.read = "AnyUser"
    /\ request.method = "GET"
    /\ request.all = NONE
    /\ ~request.ids.some
    /\ request.auth.valid
    /\ ~request.auth.is_authenticated

Refused ==
    /\ pc = "done"
    /\ handler_calls = 0
    /\ op = NoOp
    /\ response = ViaBuildErr(UnauthorizedError)

\* C14 as stated: the refusal is a 200 envelope with ok false and the
\* generic unauthorized text.
C14_StatedEnvelope ==
    UnauthenticatedRead =>
        /\ Refused
        /\ IsErrorEnvelope(build_err(server_error(response.error)))
        /\ build_err(server_error(response.error)).body.json.error
              = UNAUTHORIZED_ERROR_MSG

\* C14: an unauthenticated single read at AnyUser on a non-owned route is
\* refused without a handler call, with status 401 and the generic
\* unauthorized text as a plain-text body, no envelope.
C14_Refused401 ==
    UnauthenticatedRead =>
        /\ Refused
        /\ IsPlainText(build_err(server_error(response.error)), 401,
                       UNAUTHORIZED_ERROR_MSG)

\* The read of an existing id by a caller who is not authenticated.
C14_Witness ==
    /\ UnauthenticatedRead
    /\ request.id = "i1"
    /\ Refused

----------------------------------------------------------------------------
\* Validation::validate called on every chain and identity.

MaxValidators == 2

ValidatorLists == UNION {[1..n -> Validators] : n \in 0..MaxValidators}

AllValidations ==
    {[kind |-> "None", vs |-> <<>>]}
    \cup {[kind |-> "Require", vs |-> <<v>>] : v \in Validators}
    \cup [kind : {"RequireAll", "RequireAny"}, vs : ValidatorLists]

\* The children the loops of validate invoke, in order: RequireAll stops at
\* the first failure, RequireAny at the first success.
RECURSIVE loop_calls(_, _, _, _)
loop_calls(vs, i, m, stop_on_ok) ==
    IF i > Len(vs) THEN <<>>
    ELSE IF validator_validate(vs[i], m).ok = stop_on_ok
         THEN <<i>>
         ELSE <<i>> \o loop_calls(vs, i + 1, m, stop_on_ok)

Validation_calls(validation, m) ==
    CASE validation.kind = "None" -> <<>>
      [] validation.kind = "Require" -> <<1>>
      [] validation.kind = "RequireAll" -> loop_calls(validation.vs, 1, m, FALSE)
      [] validation.kind = "RequireAny" -> loop_calls(validation.vs, 1, m, TRUE)

InitValidation ==
    /\ route = [kind |-> "Crud", access |-> Policy("create", "None", "None", FALSE)]
    /\ pc = "idle"
    /\ request = NoRequest
    /\ metadata = NoMetadata
    /\ log = <<>>
    /\ op = NoOp
    /\ response = NoResponse
    /\ handler_calls = 0
    /\ args \in [validation : AllValidations, metadata : Metadatas]
    /\ ret = NoRet

Validate ==
    /\ ret = NoRet
    /\ ret' = [fn |-> "validate",
               result |-> Validation_validate(args.validation, args.metadata),
               calls |-> Validation_calls(args.validation, args.metadata)]
    /\ UNCHANGED <<crudVars, args>>

NextValidation == Validate

SpecValidation == InitValidation /\ [][NextValidation]_vars

\* The children of the chain that accept the identity.
Passing ==
    {i \in DOMAIN args.validation.vs :
        validator_validate(args.validation.vs[i], args.metadata).ok}

FirstPassing == CHOOSE i \in Passing : \A j \in Passing : i <= j

\* C16: RequireAny succeeds exactly when some child succeeds and then has
\* invoked the children up to the first success and none after it; when
\* every child fails it returns one RequireAnyWasFalse holding every
\* child's error, one per child in list order.
C16_RequireAny ==
    (ret.fn = "validate" /\ args.validation.kind = "RequireAny")
    => /\ ret.result.ok <=> Passing # {}
       /\ Passing # {}
             => ret.calls = [i \in 1..FirstPassing |-> i]
       /\ Passing = {}
             => /\ ret.result.err.type = "RequireAnyWasFalse"
                /\ ret.calls = [i \in 1..Len(args.validation.vs) |-> i]
                /\ Len(ret.result.err.errors) = Len(args.validation.vs)
                /\ \A i \in DOMAIN args.validation.vs :
                      ret.result.err.errors[i]
                         = validator_validate(args.validation.vs[i], args.metadata).err

\* Two failing children: the error names both, in order.
C16_Witness ==
    /\ ret.fn = "validate"
    /\ args.validation = [kind |-> "RequireAny",
                          vs |-> <<[name |-> "A", verdict |-> "err"],
                                   [name |-> "B", verdict |-> "err"]>>]
    /\ ret.result.err.errors
          = <<Err("ValidationError", "A"), Err("ValidationError", "B")>>

\* The children of the chain that reject the identity.
Failing == DOMAIN args.validation.vs \ Passing

FirstFailing == CHOOSE i \in Failing : \A j \in Failing : i <= j

\* C27: RequireAll invokes its children in list order up to the first one
\* that fails and returns that child's error unchanged; it succeeds exactly
\* when every child succeeds, the empty list included. None succeeds without
\* invoking anything and Require(v) returns the result of v.
C27_RequireAll ==
    ret.fn = "validate"
    => /\ args.validation.kind = "RequireAll"
          => /\ ret.result.ok <=> Failing = {}
             /\ Failing = {}
                => /\ ret.result = Ok(NONE)
                   /\ ret.calls = [i \in 1..Len(args.validation.vs) |-> i]
             /\ Failing # {}
                => /\ ret.result = validator_validate(args.validation.vs[FirstFailing],
                                                      args.metadata)
                   /\ ret.calls = [i \in 1..FirstFailing |-> i]
       /\ args.validation.kind = "None"
          => (ret.result = Ok(NONE) /\ ret.calls = <<>>)
       /\ args.validation.kind = "Require"
          => /\ ret.result = validator_validate(args.validation.vs[1], args.metadata)
             /\ ret.calls = <<1>>

\* Two failing children: the first one's error is returned and the second
\* is not invoked.
C27_Witness ==
    /\ ret.fn = "validate"
    /\ args.validation = [kind |-> "RequireAll",
                          vs |-> <<[name |-> "A", verdict |-> "err"],
                                   [name |-> "B", verdict |-> "err"]>>]
    /\ ret.result = Failed(Err("ValidationError", "A"))
    /\ ret.calls = <<1>>

----------------------------------------------------------------------------
\* RoutingConfig::handle.

Selectors == {"a", "b"}

Methods == {"GET", "POST", "PUT", "DELETE", "PATCH"}

\* The event: its method, the proxy path parameter (absent, or a selector
\* that may be registered or not) and its path.
Events ==
    [http_method : Methods, proxy : Selectors \cup {"c", NONE}, path : {"/x", "/y"}]

RoutingConfigs ==
    [function_routes : SUBSET Selectors, crud_routes : SUBSET Selectors]

InvalidRouteError(path) == Err("InvalidRouteError", path)

NoRouteSpec == [kind |-> NONE, selector |-> NONE]

\* Variant: the function table is consulted for every method.
find_function_spec_any_method(config, event) ==
    IF event.proxy # NONE /\ event.proxy \in config.function_routes
    THEN [kind |-> "Function", selector |-> event.proxy]
    ELSE NoRouteSpec

find_function_spec(config, event) ==
    IF event.http_method = "POST"
    THEN IF event.proxy # NONE /\ event.proxy \in config.function_routes
         THEN [kind |-> "Function", selector |-> event.proxy]
         ELSE NoRouteSpec
    ELSE NoRouteSpec

find_crud_spec(config, event) ==
    IF event.proxy # NONE /\ event.proxy \in config.crud_routes
    THEN [kind |-> "Crud", selector |-> event.proxy]
    ELSE NoRouteSpec

\* handle: the resolver whose resolve is awaited, or the response built
\* when there is none.
handle(config, event) ==
    LET route_spec ==
            IF find_function_spec(config, event) # NoRouteSpec
            THEN find_function_spec(config, event)
            ELSE find_crud_spec(config, event)
    IN  IF route_spec = NoRouteSpec
        THEN [fn |-> "handle", resolver |-> NoRouteSpec,
              response |-> ViaBuildErr(InvalidRouteError(event.path))]
        ELSE [fn |-> "handle", resolver |-> route_spec, response |-> NoResponse]

NoEvent == [http_method |-> NONE, proxy |-> NONE, path |-> NONE]

InitRouting ==
    /\ route \in RoutingConfigs
    /\ pc = "idle"
    /\ request = NoEvent
    /\ metadata = NoMetadata
    /\ log = <<>>
    /\ op = NoOp
    /\ response = NoResponse
    /\ handler_calls = 0
    /\ args = NoArgs
    /\ ret = NoRet

Handle ==
    /\ pc = "idle"
    /\ \E event \in Events :
          /\ request' = event
          /\ ret' = handle(route, event)
    /\ pc' = "done"
    /\ UNCHANGED <<route, metadata, log, op, response, handler_calls, args>>

NextRouting == Handle

SpecRouting == InitRouting /\ [][NextRouting]_vars

InFunctionTable == request.proxy # NONE /\ request.proxy \in route.function_routes

InCrudTable == request.proxy # NONE /\ request.proxy \in route.crud_routes

NotFound ==
    /\ ret.resolver = NoRouteSpec
    /\ ret.response = ViaBuildErr(InvalidRouteError(request.path))

\* C17 as stated: a Function resolver registered under the selector is the
\* one invoked whatever the method; else the CRUD resolver; else the error.
C17_StatedDispatch ==
    ret.fn = "handle" =>
        IF InFunctionTable
        THEN ret.resolver = [kind |-> "Function", selector |-> request.proxy]
        ELSE IF InCrudTable
             THEN ret.resolver = [kind |-> "Crud", selector |-> request.proxy]
             ELSE NotFound

\* C17: a POST whose selector is in the function table invokes that
\* Function resolver; any other request whose selector is in the CRUD table
\* invokes that CRUD resolver, whatever its method; otherwise no resolver is
\* invoked and the response is built from InvalidRouteError with the path.
C17_Dispatch ==
    ret.fn = "handle" =>
        IF request.http_method = "POST" /\ InFunctionTable
        THEN ret.resolver = [kind |-> "Function", selector |-> request.proxy]
        ELSE IF InCrudTable
             THEN ret.resolver = [kind |-> "Crud", selector |-> request.proxy]
             ELSE NotFound

\* A GET on a selector registered in both tables goes to the CRUD resolver.
C17_Witness ==
    /\ ret.fn = "handle"
    /\ request.http_method = "GET"
    /\ InFunctionTable
    /\ InCrudTable
    /\ ret.resolver.kind = "Crud"

----------------------------------------------------------------------------
\* Function routes (std/function_specs.rs).

\* The levels the file's own is_allowed_access has arms for.
FunctionAccessLevels == {"Guest", "User", "Admin", "None"}

function_is_allowed_access(m, access) ==
    CASE access = "Guest" -> TRUE
      [] access = "User" -> m.is_authenticated
      [] access = "Admin" -> m.is_authenticated /\ m.is_admin
      [] access = "None" -> FALSE

\* A verifier handed to with_verifiers, with the verdict it would give on
\* the request.
VerifierLists == {<<>>, <<[name |-> "V", ok |-> TRUE]>>, <<[name |-> "V", ok |-> FALSE]>>}

FunctionRoutes ==
    [kind : {"VoidFunction", "Function"}, access : FunctionAccessLevels,
     verifiers : VerifierLists]
    \cup [kind : {"OwnedFunction", "VoidOwnedFunction"}, access : OwnedAccessLevels,
          verifiers : VerifierLists]

FunctionRequests ==
    {Req("POST", a, NONE, NONE, NONE, NONE, NoIds, NONE, NONE, b) :
        a \in Auths, b \in Bodies}

\* owner_of: Fn(&I) -> String, here the owner the input's id belongs to.
owner_of(input) == IF input.id = "i1" THEN "u1" ELSE "u2"

Call(input) == [kind |-> "Call", input |-> input]

EvHandler == Ev("handler", "Call", "called")

VoidFunction_resolve(access, req) ==
    LET md == parse_request_metadata(req)
        l1 == <<EvMetadata(req)>>
        l2 == Append(l1, Ev("is_allowed_access", "access",
                            Tf(function_is_allowed_access(md.val, access)))) IN
    IF ~md.ok THEN Stop(l1, md.err)
    ELSE IF ~function_is_allowed_access(md.val, access)
    THEN Stop(l2, UnauthorizedError)
    ELSE Built(Append(l2, EvHandler), Call(NONE))

\* Variant: an input that does not parse is replaced by no input and the
\* handler is called.
Function_resolve_default_input(access, req) ==
    LET md == parse_request_metadata(req)
        l1 == <<EvMetadata(req)>>
        l2 == Append(l1, Ev("is_allowed_access", "access",
                            Tf(function_is_allowed_access(md.val, access))))
        input == parse_request_data(req, "T")
        l3 == Append(l2, EvData(req, "T")) IN
    IF ~md.ok THEN Stop(l1, md.err)
    ELSE IF ~function_is_allowed_access(md.val, access)
    THEN Stop(l2, UnauthorizedError)
    ELSE IF ~input.ok THEN Built(Append(l3, EvHandler), Call(NONE))
    ELSE Built(Append(l3, EvHandler), Call(input.val))

Function_resolve(access, req) ==
    LET md == parse_request_metadata(req)
        l1 == <<EvMetadata(req)>>
        l2 == Append(l1, Ev("is_allowed_access", "access",
                            Tf(function_is_allowed_access(md.val, access))))
        input == parse_request_data(req, "T")
        l3 == Append(l2, EvData(req, "T")) IN
    IF ~md.ok THEN Stop(l1, md.err)
    ELSE IF ~function_is_allowed_access(md.val, access)
    THEN Stop(l2, UnauthorizedError)
    ELSE IF ~input.ok THEN Stop(l3, input.err)
    ELSE Built(Append(l3, EvHandler), Call(input.val))

\* The match on the level in OwnedFunction::resolve. It has arms for
\* OwnerOrAdmin, Owner and None only; unmatched is the value authorized
\* takes at a level without an arm, which the source does not fix.
OwnedFunction_authorized(m, access, input, unmatched) ==
    CASE access = "OwnerOrAdmin" ->
            IF m.is_admin
            THEN TRUE
            ELSE IF m.user_sub # NONE THEN m.user_sub = owner_of(input) ELSE FALSE
      [] access = "Owner" ->
            IF m.user_sub # NONE THEN m.user_sub = owner_of(input) ELSE FALSE
      [] access = "None" -> FALSE
      [] OTHER -> unmatched

OwnedFunction_resolve(access, req, unmatched) ==
    LET md == parse_request_metadata(req)
        l1 == <<EvMetadata(req)>>
        l2 == Append(l1, Ev("is_authenticated", "", Tf(md.val.is_authenticated)))
        input == parse_request_data(req, "T")
        l3 == Append(l2, EvData(req, "T"))
        authorized == OwnedFunction_authorized(md.val, access, input.val, unmatched)
        l4 == Append(l3, Ev("authorized", access, Tf(authorized))) IN
    IF ~md.ok THEN Stop(l1, md.err)
    ELSE IF ~md.val.is_authenticated THEN Stop(l2, UnauthorizedError)
    ELSE IF ~input.ok THEN Stop(l3, input.err)
    ELSE IF ~authorized THEN Stop(l4, UnauthorizedError)
    ELSE Built(Append(l4, EvHandler), Call(input.val))

\* The match in VoidOwnedFunction::resolve, with the same three arms.
VoidOwnedFunction_authorized(m, access, unmatched) ==
    CASE access = "OwnerOrAdmin" -> m.is_admin
      [] access = "Owner" -> FALSE
      [] access = "None" -> FALSE
      [] OTHER -> unmatched

VoidOwnedFunction_resolve(access, req, unmatched) ==
    LET md == parse_request_metadata(req)
        l1 == <<EvMetadata(req)>>
        l2 == Append(l1, Ev("is_authenticated", "", Tf(md.val.is_authenticated)))
        authorized == VoidOwnedFunction_authorized(md.val, access, unmatched)
        l3 == Append(l2, Ev("authorized", access, Tf(authorized))) IN
    IF ~md.ok THEN Stop(l1, md.err)
    ELSE IF ~md.val.is_authenticated THEN Stop(l2, UnauthorizedError)
    ELSE IF ~authorized THEN Stop(l3, UnauthorizedError)
    ELSE Built(Append(l3, EvHandler), Call(NONE))

InitFunction ==
    /\ route \in FunctionRoutes
    /\ pc = "idle"
    /\ request = NoRequest
    /\ metadata = NoMetadata
    /\ log = <<>>
    /\ op = NoOp
    /\ response = NoResponse
    /\ handler_calls = 0
    /\ args = NoArgs
    /\ ret = NoRet

VoidFunctionResolve ==
    /\ pc = "idle"
    /\ route.kind = "VoidFunction"
    /\ \E req \in FunctionRequests :
          Resolved(req, VoidFunction_resolve(route.access, req))

FunctionResolve ==
    /\ pc = "idle"
    /\ route.kind = "Function"
    /\ \E req \in FunctionRequests :
          Resolved(req, Function_resolve(route.access, req))

OwnedFunctionResolve ==
    /\ pc = "idle"
    /\ route.kind = "OwnedFunction"
    /\ \E req \in FunctionRequests, unmatched \in BOOLEAN :
          Resolved(req, OwnedFunction_resolve(route.access, req, unmatched))

VoidOwnedFunctionResolve ==
    /\ pc = "idle"
    /\ route.kind = "VoidOwnedFunction"
    /\ \E req \in FunctionRequests, unmatched \in BOOLEAN :
          Resolved(req, VoidOwnedFunction_resolve(route.access, req, unmatched))

NextFunction ==
    \/ VoidFunctionResolve
    \/ FunctionResolve
    \/ OwnedFunctionResolve
    \/ VoidOwnedFunctionResolve
    \/ HandlerReturn

SpecFunction == InitFunction /\ [][NextFunction]_vars

----------------------------------------------------------------------------
\* Function resolver properties.

FunctionResolved == pc # "idle" /\ request.auth.valid

\* C18: in the four function resolvers the verifiers given to
\* with_verifiers are evaluated after authorization and before the handler:
\* the handler is called only when every verifier accepts, after a
\* verification step, and a failing verifier ends in an error response.
C18_VerifiersRun ==
    FunctionResolved =>
        /\ HasStep("handler")
              => /\ \A i \in DOMAIN route.verifiers : route.verifiers[i].ok
                 /\ route.verifiers # <<>> => HasStep("verify")
        /\ (\E i \in DOMAIN route.verifiers : ~route.verifiers[i].ok)
              => /\ handler_calls = 0
                 /\ pc = "done"
                 /\ response.via = "build_err"

FunctionInput == parse_request_data(request, "T")

\* C19: OwnedFunction::resolve calls the handler exactly when the
\* preliminary check passes, the input parses and the final check against
\* the input's owner passes, at every owned level.
C19_TwoPhase ==
    (FunctionResolved /\ route.kind = "OwnedFunction")
    => (handler_calls > 0
        <=> /\ preliminary_access_check(metadata, route.access)
            /\ FunctionInput.ok
            /\ is_allowed_owned_access(metadata, route.access,
                                       owner_of(FunctionInput.val)))

----------------------------------------------------------------------------
\* Methods without an arm in the CRUD resolvers.

UnsupportedMethod == CriticalError("unsupported HTTP method for CRUD route")

\* C21: on both kinds of CRUD route a request of an identified caller whose
\* method is not GET, POST, PUT or DELETE ends in build_err of the critical
\* error, answered 500 with the generic plain-text message; no policy field
\* is evaluated, no operation is built, validation does not run and the
\* handler is not called.
C21_UnsupportedMethod ==
    (Resolving /\ request.method \notin CrudMethods)
    => /\ pc = "done"
       /\ response = ViaBuildErr(UnsupportedMethod)
       /\ IsPlainText(build_err(server_error(response.error)), 500,
                      INTERNAL_SERVER_ERROR_MSG)
       /\ AuthFieldsUsed = {}
       /\ log = <<EvMetadata(request)>>
       /\ op = NoOp
       /\ ~HasStep("validate")
       /\ handler_calls = 0

\* PATCH from an authenticated admin on an owned route open to everyone.
C21_Witness ==
    /\ Resolving
    /\ route.kind = "OwnedCrud"
    /\ route.access.read = "Guest" /\ route.access.update = "Guest"
    /\ request.method = "PATCH"
    /\ metadata.is_authenticated /\ metadata.is_admin
    /\ response = ViaBuildErr(UnsupportedMethod)

----------------------------------------------------------------------------
\* The order of authorization and parsing in the CRUD resolvers.

\* The steps that parse an argument of the operation.
ParseSteps ==
    {"get_optional_pksk", "parse_request_data", "maybe_ids", "get_required_id"}

\* A request that reaches the branches of its method: the method has an arm
\* and the non_recursive guard of DELETE does not refuse it.
Dispatched ==
    /\ Resolving
    /\ request.method \in CrudMethods
    /\ ~(/\ request.method = "DELETE"
         /\ request.non_recursive # NONE
         /\ ~route.access.allow_non_recursive_delete)

\* C22: on an owned route a caller who fails the preliminary check on the
\* resolved policy field gets the unauthorized error, and no argument (body,
\* ids, id, parent_id, after) has been parsed by then.
C22_PrelimBeforeParsing ==
    (/\ Dispatched
     /\ route.kind = "OwnedCrud"
     /\ ~preliminary_access_check(metadata, route.access[ResolvedField(request)]))
    => /\ Unauthorized
       /\ \A i \in DOMAIN log : log[i].e \notin ParseSteps

OwnerLookups == {"owner_of_id", "owner_of_parent_id"}

\* The owner lookups resolve has made.
LookupSteps == {i \in DOMAIN log : log[i].e \in OwnerLookups}

\* C23: on an owned route every owner lookup comes after a preliminary
\* check that returned true on the resolved policy field of the request, and
\* a request whose preliminary check fails makes no owner lookup at all.
C23_NoLookupBeforePrelim ==
    (pc # "idle" /\ route.kind = "OwnedCrud")
    => /\ \A i \in LookupSteps :
             \E j \in 1..(i - 1) :
                /\ log[j].e = "preliminary_access_check"
                /\ log[j].a = ResolvedField(request)
                /\ log[j].r = "true"
       /\ (\E j \in DOMAIN log :
              log[j].e = "preliminary_access_check" /\ log[j].r = "false")
          => LookupSteps = {}
       /\ (/\ Dispatched
           /\ ~preliminary_access_check(metadata, route.access[ResolvedField(request)]))
          => LookupSteps = {}

\* A caller who passes the preliminary check at Owner and is refused after
\* the one lookup of the id's owner.
C23_Witness ==
    /\ route.kind = "OwnedCrud"
    /\ route.access.read = "Owner"
    /\ request.method = "GET" /\ request.all = NONE /\ ~request.ids.some
    /\ request.id = "i2"
    /\ metadata.is_authenticated /\ metadata.user_sub = "u1"
    /\ Cardinality(LookupSteps) = 1
    /\ Unauthorized

\* Some argument of the resolved operation does not parse.
Malformed ==
    CASE ResolvedField(request) = "replace_all" ->
            ~ParsedParent.ok \/ ~parse_request_data(request, "Vec<Data>").ok
      [] ResolvedField(request) = "batch_create" ->
            ~ParsedParent.ok \/ ~ParsedAfter.ok
      [] ResolvedField(request) = "create" ->
            \/ ~ParsedParent.ok
            \/ ~ParsedAfter.ok
            \/ ~parse_request_data(request, "Data").ok
      [] ResolvedField(request) \in {"list", "delete_all"} -> ~ParsedParent.ok
      [] ResolvedField(request) \in {"batch_read", "batch_delete"} ->
            ~maybe_ids(request).ok
      [] ResolvedField(request) \in {"read", "delete"} ->
            ~get_required_id(request).ok
      [] ResolvedField(request) = "update" ->
            ~parse_request_data(request, "T").ok

\* A request on a non-owned route that the resolved policy field refuses.
NotPermitted ==
    /\ Dispatched
    /\ route.kind = "Crud"
    /\ ~is_allowed_access(metadata, route.access[ResolvedField(request)])

\* The create branches of POST with a parent_id or after that does not parse.
CreateWithBadParam ==
    /\ request.method = "POST"
    /\ request.replace_all = NONE
    /\ ~ParsedParent.ok \/ ~ParsedAfter.ok

\* C24 as stated: on a non-owned route the access check comes after the
\* parsing of the arguments, so a request that is malformed and not
\* permitted gets the parsing error, for every operation shape.
C24_StatedParseFirst ==
    (NotPermitted /\ Malformed)
    => /\ pc = "done"
       /\ response.via = "build_err"
       /\ response.error.type = "InvalidRequestError"

\* C24: on a non-owned route the access check on the resolved policy field
\* comes before any argument is parsed and returned, so a request that is not
\* permitted gets the unauthorized error even when it is malformed; only the
\* create branches of POST parse parent_id and after (and try the body as a
\* list) before the check, and there a malformed parent_id or after gives
\* its parsing error.
C24_CheckFirst ==
    NotPermitted
    => /\ pc = "done" /\ handler_calls = 0 /\ op = NoOp
       /\ IF CreateWithBadParam
          THEN response = ViaBuildErr(IF ~ParsedParent.ok THEN ParsedParent.err
                                      ELSE ParsedAfter.err)
          ELSE Unauthorized
       /\ ~(request.method = "POST" /\ request.replace_all = NONE)
          => \A i \in DOMAIN log : log[i].e \notin (ParseSteps \ {"maybe_ids"})

\* A single read with an id that does not parse, by a caller the read level
\* refuses: the answer is the unauthorized error.
C24_Witness ==
    /\ NotPermitted
    /\ Malformed
    /\ request.method = "GET" /\ request.all = NONE /\ ~request.ids.some
    /\ request.id = "bad"
    /\ Unauthorized

----------------------------------------------------------------------------
\* The owner behind the final check of an owned route.

ParentFields == {"create", "batch_create", "replace_all", "list", "delete_all"}

\* The id whose owner a single-target operation on field f is checked
\* against: the parent (or the root sentinel), the id parameter, or the id
\* inside the submitted item.
AuthorizedId(f) ==
    CASE f \in ParentFields ->
            IF ParsedParent.val # NONE THEN ParsedParent.val ELSE PkSk_root
      [] f \in {"read", "delete"} -> get_required_id(request).val
      [] f = "update" -> request.body.id

ExpectedLookup(f) ==
    IF f \in ParentFields
    THEN Ev("owner_of_parent_id", AuthorizedId(f), owner_of_parent_id(AuthorizedId(f)))
    ELSE Ev("owner_of_id", AuthorizedId(f), owner_of_id(AuthorizedId(f)))

SingleTargetFields == ParentFields \cup {"read", "delete", "update"}

\* C25: on an owned route the final check of Create, CreateMultiple,
\* ReplaceAll, List and DeleteAll is made against owner_of_parent_id of the
\* parent_id, or of the root sentinel when there is none; that of Read and
\* Delete against owner_of_id of the id parameter; that of Update against
\* owner_of_id of the id inside the item; and the id or parent_id in the
\* operation handed on is the one that was authorized.
C25_OwnerOfFinalCheck ==
    (pc # "idle" /\ route.kind = "OwnedCrud")
    => /\ \A i \in DOMAIN log :
             (log[i].e = "is_allowed_owned_access" /\ log[i].a \in SingleTargetFields)
             => /\ i > 1
                /\ log[i - 1] = ExpectedLookup(log[i].a)
                /\ log[i].r = Tf(is_allowed_owned_access(
                                    metadata, route.access[log[i].a], log[i - 1].r))
                /\ Cardinality(LookupSteps) = 1
       /\ (op # NoOp /\ ResolvedField(request) \in SingleTargetFields)
          => /\ \E i \in LookupSteps :
                   /\ log[i] = ExpectedLookup(ResolvedField(request))
                   /\ log[i + 1] = Ev("is_allowed_owned_access",
                                      ResolvedField(request), "true")
             /\ op.kind \in {"Create", "CreateMultiple", "ReplaceAll", "List", "DeleteAll"}
                => /\ op.parent_id = ParsedParent.val
                   /\ AuthorizedId(ResolvedField(request))
                         = IF op.parent_id # NONE THEN op.parent_id ELSE PkSk_root
             /\ op.kind \in {"Read", "Delete"}
                => op.id = AuthorizedId(ResolvedField(request))
             /\ op.kind = "Update"
                => op.item.id = AuthorizedId("update")

\* A create without parent_id, authorized against the owner of the root
\* sentinel.
C25_Witness ==
    /\ route.kind = "OwnedCrud"
    /\ route.access.create = "OwnerOrAdmin"
    /\ request.method = "POST" /\ request.replace_all = NONE
    /\ request.parent_id = NONE
    /\ pc = "handler"
    /\ op.kind = "Create"
    /\ \E i \in LookupSteps : log[i].e = "owner_of_parent_id" /\ log[i].a = PkSk_root

----------------------------------------------------------------------------
\* CRUD and function routes together: one route of either kind serving a
\* request.

InitResolvers == Init \/ InitFunction

NextResolvers ==
    \/ CrudResolve
    \/ OwnedCrudResolve
    \/ VoidFunctionResolve
    \/ FunctionResolve
    \/ OwnedFunctionResolve
    \/ VoidOwnedFunctionResolve
    \/ HandlerReturn

SpecResolvers == InitResolvers /\ [][NextResolvers]_vars

----------------------------------------------------------------------------
\* Error propagation.

CheckSteps == AuthSteps \cup {"is_authenticated", "authorized"}

\* The step returned an error or a refusal.
StepFails(s) ==
    \/ /\ s.e \in (ParseSteps \ {"maybe_ids"}) \cup {"parse_request_metadata", "validate"}
       /\ s.r = "err"
    \/ s.e = "maybe_ids" /\ maybe_ids(request).some /\ ~maybe_ids(request).ok
    \/ s.e \in CheckSteps /\ s.r = "false"

\* The error the step produced.
StepError(s) ==
    CASE s.e = "parse_request_metadata" -> parse_request_metadata(request).err
      [] s.e \in CheckSteps -> UnauthorizedError
      [] s.e = "get_optional_pksk" -> get_optional_pksk(request, s.a).err
      [] s.e = "parse_request_data" -> parse_request_data(request, s.a).err
      [] s.e = "maybe_ids" -> maybe_ids(request).err
      [] s.e = "get_required_id" -> get_required_id(request).err
      [] s.e = "validate" -> s.err

\* The failure ended resolve: nothing ran after it and its error went to
\* build_err.
Halts(i) ==
    /\ i = Len(log)
    /\ pc = "done"
    /\ op = NoOp
    /\ handler_calls = 0
    /\ response = ViaBuildErr(StepError(log[i]))

CrudRoute == route.kind \in {"Crud", "OwnedCrud"}

\* The try of the body as a list in the create branches of POST.
ListTry(i) ==
    /\ CrudRoute
    /\ request.method = "POST"
    /\ request.replace_all = NONE
    /\ log[i].e = "parse_request_data"
    /\ log[i].a = "Vec<Data>"

\* The parse of the ids parameter, made while the branch is chosen.
IdsParse(i) == CrudRoute /\ log[i].e = "maybe_ids"

\* A request refused or rejected without a failing step: the non_recursive
\* guard of DELETE, or a method without an arm.
RefusedOutright ==
    /\ CrudRoute
    /\ pc = "done"
    /\ handler_calls = 0
    /\ \/ /\ request.method = "DELETE"
          /\ request.non_recursive # NONE
          /\ ~route.access.allow_non_recursive_delete
          /\ Unauthorized
       \/ /\ request.method \notin CrudMethods
          /\ response = ViaBuildErr(UnsupportedMethod)

\* C26 as stated: in the CRUD and function resolvers an error produced at
\* any stage ends resolve at that stage with build_err of exactly that
\* error; none is dropped, replaced by a later outcome or recovered from.
C26_StatedPropagation ==
    pc # "idle" =>
        \A i \in DOMAIN log : StepFails(log[i]) => Halts(i)

\* C26: every error a stage produces ends resolve there with build_err of
\* exactly that error, the handler's error included, with two exceptions in
\* the CRUD resolvers: the failure to parse the body as a list on POST
\* without replace_all is dropped and the body parsed as a single item, and
\* the error of a malformed ids is held until the check on the batch field
\* has run, which replaces it by the unauthorized error when it refuses.
C26_Propagation ==
    pc # "idle" =>
        /\ \A i \in DOMAIN log :
              StepFails(log[i]) =>
                 IF ListTry(i)
                 THEN /\ i < Len(log)
                      /\ log[i + 1].e \in AuthSteps
                      /\ log[i + 1].a = "create"
                 ELSE IF IdsParse(i)
                 THEN /\ i + 1 = Len(log)
                      /\ log[i + 1].e \in AuthSteps
                      /\ log[i + 1].a = BatchField
                      /\ pc = "done" /\ op = NoOp /\ handler_calls = 0
                      /\ response = ViaBuildErr(IF log[i + 1].r = "true"
                                                THEN StepError(log[i])
                                                ELSE UnauthorizedError)
                 ELSE Halts(i)
        /\ (\A i \in DOMAIN log : StepFails(log[i]) => ListTry(i))
              => \/ RefusedOutright
                 \/ /\ handler_calls = 1
                    /\ HasStep("handler")
                    /\ pc = "done" =>
                          \E res \in HandlerResults : response = build_result(res)
        /\ (pc = "done" /\ handler_calls = 1 /\ response.via = "build_err")
              => response = ViaBuildErr(Err("HandlerError", "detail"))

\* A validation error on a create whose body was first tried as a list.
C26_Witness ==
    /\ route.kind = "OwnedCrud"
    /\ request.method = "POST" /\ request.replace_all = NONE
    /\ request.body.shape = "object"
    /\ \E i \in DOMAIN log : ListTry(i) /\ log[i].r = "err"
    /\ log[Len(log)].e = "validate"
    /\ response = ViaBuildErr(Err("ValidationError", "A"))

----------------------------------------------------------------------------
\* One request, one response.

\* The routes whose behaviours are followed to their end: a CRUD route of
\* each kind on which a request can take every exit of resolve, and every
\* function route.
LiveRoutes ==
    {[kind |-> "Crud", access |-> Policy("create", "AnyUser", "AnyUser", FALSE)],
     [kind |-> "OwnedCrud",
      access |-> Policy("create", "OwnerOrAdmin", "OwnerOrAdmin", FALSE)]}
    \cup FunctionRoutes

InitLive == InitResolvers /\ route \in LiveRoutes

\* resolve is polled until it returns, and the handler's future completes.
LiveResolvers == InitLive /\ [][NextResolvers]_vars /\ WF_vars(NextResolvers)

HandlerSteps == {i \in DOMAIN log : log[i].e = "handler"}

\* C28: every resolve, CRUD or function, ends with one response once the
\* handler's future has completed, and nothing happens after it; at most one
\* operation is built and the handler is called at most once, and not at
\* all when resolve returns an authorization, parsing, validation or
\* unsupported-method error.
C28_OneResponse ==
    /\ <>(pc = "done")
    /\ [][pc # "done"]_vars
    /\ [](/\ pc = "done" <=> response # NoResponse
          /\ handler_calls <= 1
          /\ Cardinality(HandlerSteps) = handler_calls
          /\ op # NoOp <=> handler_calls = 1
          /\ (/\ pc = "done"
              /\ response.via = "build_err"
              /\ response.error # Err("HandlerError", "detail"))
             => handler_calls = 0
          /\ (\E i \in DOMAIN log : StepFails(log[i]) /\ Halts(i))
             => handler_calls = 0)

\* The handler of an owned route was called once and its output went to
\* build_ok.
C28_Witness ==
    /\ route.kind = "OwnedCrud"
    /\ pc = "done"
    /\ handler_calls = 1
    /\ op.kind = "Update"
    /\ response = ViaBuildOk("output")

----------------------------------------------------------------------------
\* Concurrent invocations of RoutingConfig::handle on one shared table. Each
\* variable but route maps an invocation to that invocation's own value: its
\* event, parsed identity, steps, operation, response, handler calls, the
\* route_spec it found (args) and the result of its handler (ret).

MaxInvocations == 2

Invocations == 1..MaxInvocations

\* function_routes and crud_routes, each a map from selector to resolver.
RoutingTables ==
    {[function_routes |-> [a |-> [kind |-> "Function", access |-> "User"]],
      crud_routes |->
         [a |-> [kind |-> "Crud",
                 access |-> Policy("create", "AnyUser", "AnyUser", FALSE),
                 validation |-> [kind |-> "None", vs |-> <<>>]],
          b |-> [kind |-> "OwnedCrud",
                 access |-> Policy("create", "Owner", "Owner", FALSE),
                 validation |-> [kind |-> "Require",
                                 vs |-> <<[name |-> "A", verdict |-> "err"]>>]]]],
     [function_routes |-> [b |-> [kind |-> "VoidFunction", access |-> "User"]],
      crud_routes |->
         [b |-> [kind |-> "OwnedCrud",
                 access |-> Policy("create", "OwnerOrAdmin", "OwnerOrAdmin", FALSE),
                 validation |-> [kind |-> "None", vs |-> <<>>]]]]}

\* The events of concurrent callers: a guest and the authenticated user u1,
\* creating or reading on a registered or unregistered selector.
ConcurrentEvents ==
    {[http_method |-> mth, proxy |-> p, path |-> "/x",
      payload |-> Req(mth,
                      [valid |-> TRUE, is_authenticated |-> au, is_admin |-> FALSE,
                       user_sub |-> IF au THEN "u1" ELSE NONE],
                      NONE, NONE, NONE, "i1", NoIds, NONE, NONE,
                      [shape |-> sh, id |-> IF sh = "object" THEN "i1" ELSE NONE])] :
        mth \in {"POST", "GET"}, p \in {"a", "b", "c"}, au \in BOOLEAN,
        sh \in {"object", "malformed"}}

\* The key sets of the two maps, as find_function_spec and find_crud_spec
\* look them up.
Keys(table) ==
    [function_routes |-> DOMAIN table.function_routes,
     crud_routes |-> DOMAIN table.crud_routes]

\* The resolver a RouteSpecRef points to.
Deref(table, ref) ==
    IF ref.kind = "Function"
    THEN table.function_routes[ref.selector]
    ELSE table.crud_routes[ref.selector]

\* spec.resolve(&event.payload) up to the await of the handler.
resolve(spec, req) ==
    CASE spec.kind = "Crud" -> Crud_resolve(spec.access, spec.validation, req)
      [] spec.kind = "OwnedCrud" -> OwnedCrud_resolve(spec.access, spec.validation, req)
      [] spec.kind = "Function" -> Function_resolve(spec.access, req)
      [] spec.kind = "VoidFunction" -> VoidFunction_resolve(spec.access, req)

InitConcurrent ==
    /\ route \in RoutingTables
    /\ pc = [i \in Invocations |-> "idle"]
    /\ request = [i \in Invocations |-> NoEvent]
    /\ metadata = [i \in Invocations |-> NoMetadata]
    /\ log = [i \in Invocations |-> <<>>]
    /\ op = [i \in Invocations |-> NoOp]
    /\ response = [i \in Invocations |-> NoResponse]
    /\ handler_calls = [i \in Invocations |-> 0]
    /\ args = [i \in Invocations |-> NoRouteSpec]
    /\ ret = [i \in Invocations |-> NoRet]

\* handle looks the route up; without one it returns build_err.
FindRoute(i) ==
    /\ pc[i] = "idle"
    /\ \E event \in ConcurrentEvents :
          LET h == handle(Keys(route), event) IN
          /\ request' = [request EXCEPT ![i] = event]
          /\ args' = [args EXCEPT ![i] = h.resolver]
          /\ response' = [response EXCEPT ![i] = h.response]
          /\ pc' = [pc EXCEPT ![i] = IF h.resolver = NoRouteSpec THEN "done"
                                     ELSE "routed"]
    /\ UNCHANGED <<route, metadata, log, op, handler_calls, ret>>

\* Variant: the identity is read from a slot shared by the invocations, so
\* it is the one of whichever request was routed.
RunResolve_shared_identity(i) ==
    /\ pc[i] = "routed"
    /\ \E j \in Invocations :
          /\ pc[j] # "idle"
          /\ LET req == [request[i].payload EXCEPT !.auth = request[j].payload.auth]
                 r == resolve(Deref(route, args[i]), req) IN
             /\ metadata' = [metadata EXCEPT ![i] = parse_request_metadata(req).val]
             /\ log' = [log EXCEPT ![i] = r.log]
             /\ op' = [op EXCEPT ![i] = r.op]
             /\ IF r.op = NoOp
                THEN /\ pc' = [pc EXCEPT ![i] = "done"]
                     /\ response' = [response EXCEPT ![i] = ViaBuildErr(r.err)]
                     /\ handler_calls' = handler_calls
                ELSE /\ pc' = [pc EXCEPT ![i] = "handler"]
                     /\ response' = response
                     /\ handler_calls' = [handler_calls EXCEPT ![i] = @ + 1]
    /\ UNCHANGED <<route, request, args, ret>>

\* resolve of the route found runs to its return or to the await of the
\* handler.
RunResolve(i) ==
    /\ pc[i] = "routed"
    /\ LET req == request[i].payload
           r == resolve(Deref(route, args[i]), req) IN
       /\ metadata' = [metadata EXCEPT ![i] = parse_request_metadata(req).val]
       /\ log' = [log EXCEPT ![i] = r.log]
       /\ op' = [op EXCEPT ![i] = r.op]
       /\ IF r.op = NoOp
          THEN /\ pc' = [pc EXCEPT ![i] = "done"]
               /\ response' = [response EXCEPT ![i] = ViaBuildErr(r.err)]
               /\ handler_calls' = handler_calls
          ELSE /\ pc' = [pc EXCEPT ![i] = "handler"]
               /\ response' = response
               /\ handler_calls' = [handler_calls EXCEPT ![i] = @ + 1]
    /\ UNCHANGED <<route, request, args, ret>>

\* The handler's future of the invocation completes.
HandlerCompletes(i) ==
    /\ pc[i] = "handler"
    /\ \E res \in HandlerResults :
          /\ ret' = [ret EXCEPT ![i] = res]
          /\ response' = [response EXCEPT ![i] = build_result(res)]
    /\ pc' = [pc EXCEPT ![i] = "done"]
    /\ UNCHANGED <<route, request, metadata, log, op, handler_calls, args>>

NextConcurrent ==
    \E i \in Invocations : FindRoute(i) \/ RunResolve(i) \/ HandlerCompletes(i)

SpecConcurrent == InitConcurrent /\ [][NextConcurrent]_vars

\* The request of the invocation processed alone on the table: the route
\* found and what its resolve gives.
Alone(i) ==
    LET h == handle(Keys(route), request[i]) IN
    IF h.resolver = NoRouteSpec
    THEN [found |-> FALSE, resolver |-> NoRouteSpec,
          r |-> Stop(<<>>, InvalidRouteError(request[i].path))]
    ELSE [found |-> TRUE, resolver |-> h.resolver,
          r |-> resolve(Deref(route, h.resolver), request[i].payload)]

\* C29: under every interleaving of concurrent handle calls the routing
\* table and the policies in it never change, and the steps, operation,
\* handler call and response of each request are those of the same request
\* processed alone.
C29_NoInterference ==
    /\ [][route' = route]_vars
    /\ [](/\ route \in RoutingTables
          /\ \A i \in Invocations :
                /\ pc[i] \notin {"idle"} => args[i] = Alone(i).resolver
                /\ pc[i] \in {"handler", "done"}
                   => /\ log[i] = Alone(i).r.log
                      /\ op[i] = Alone(i).r.op
                      /\ handler_calls[i] = IF Alone(i).r.op = NoOp THEN 0 ELSE 1
                /\ pc[i] = "done"
                   => response[i] = IF Alone(i).r.op = NoOp
                                    THEN ViaBuildErr(Alone(i).r.err)
                                    ELSE build_result(ret[i]))

\* A guest is refused on the route on which the handler of the user's
\* request, suspended before it, has since completed.
C29_Witness ==
    /\ request[1].proxy = "a" /\ request[2].proxy = "a"
    /\ request[1].http_method = "GET" /\ request[2].http_method = "GET"
    /\ request[1].payload.auth.is_authenticated
    /\ ~request[2].payload.auth.is_authenticated
    /\ pc[1] = "done" /\ pc[2] = "done"
    /\ response[1] = ViaBuildOk("output")
    /\ response[2] = ViaBuildErr(UnauthorizedError)

----------------------------------------------------------------------------
\* The default policy.

\* Variant: the default attribute sits on the Guest variant.
Access_default_guest == "Guest"

\* The variant that carries the default attribute of Access.
Access_default == "None"

\* The variant that carries the default attribute of OwnedAccess.
OwnedAccess_default == "None"

\* The derived default of a policy: every level at the default of its type
\* and the flag at the default of bool.
CrudAccess_default == Policy("create", Access_default, Access_default, FALSE)

OwnedCrudAccess_default ==
    Policy("create", OwnedAccess_default, OwnedAccess_default, FALSE)

\* The route carries the default policy of its kind.
DefaultPolicy ==
    route.access =
        (IF route.kind = "Crud" THEN CrudAccess_default ELSE OwnedCrudAccess_default)

\* C30: every level of a default policy is None; a CRUD route that carries
\* the default policy answers every request of every caller with an error,
\* performs no operation and never calls its handler, and the answer to a
\* well-formed request of an identified caller is the unauthorized error;
\* each helper permits a level only through the arm written for it.
C30_DenyByDefault ==
    /\ \A g \in CrudFields :
          CrudAccess_default[g] = "None" /\ OwnedCrudAccess_default[g] = "None"
    /\ ~CrudAccess_default.allow_non_recursive_delete
    /\ ~OwnedCrudAccess_default.allow_non_recursive_delete
    /\ (pc # "idle" /\ DefaultPolicy)
       => /\ pc = "done"
          /\ handler_calls = 0
          /\ op = NoOp
          /\ response.via = "build_err"
          /\ (Dispatched /\ ~CreateWithBadParam) => Unauthorized
    /\ \A m \in Metadatas :
          /\ \A a \in AccessLevels :
                is_allowed_access(m, a)
                <=> \/ a = "Guest"
                    \/ a = "AnyUser" /\ m.is_authenticated
                    \/ a = "Admin" /\ m.is_authenticated /\ m.is_admin
          /\ \A a \in OwnedAccessLevels :
                /\ preliminary_access_check(m, a)
                   <=> \/ a = "Guest"
                       \/ a \in {"AnyUser", "Owner", "OwnerOrAdmin"} /\ m.is_authenticated
                       \/ a = "Admin" /\ m.is_authenticated /\ m.is_admin
                /\ \A o \in Owners :
                      is_allowed_owned_access(m, a, o)
                      => \/ a = "Guest"
                         \/ a = "AnyUser" /\ m.is_authenticated
                         \/ a \in {"Admin", "OwnerOrAdmin"}
                            /\ m.is_authenticated /\ m.is_admin
                         \/ a \in {"Owner", "OwnerOrAdmin"}
                            /\ o # NONE /\ o = m.user_sub

\* An authenticated admin reads one item by a valid id on an owned route
\* with the default policy and is refused.
C30_Witness ==
    /\ Unauthorized
    /\ route.kind = "OwnedCrud"
    /\ DefaultPolicy
    /\ request.auth.valid /\ request.auth.is_authenticated /\ request.auth.is_admin
    /\ request.method = "GET"
    /\ ResolvedField(request) = "read"
    /\ handler_calls = 0

====
